---- MODULE Spec2Model ----
(***************************************************************************)
(* Model of the pineback backtest engine (server/backtester.py), its job   *)
(* wrapper (server/routes/backtests.py), the data helpers (server/data.py) *)
(* and the PineScript code generator (server/pine/codegen.py).             *)
(*                                                                         *)
(* Time is counted in minutes from 0.  A data frame is a function from the *)
(* timestamps of its index to OHLCV rows; positions are ranks in the       *)
(* ascending index.                                                        *)
(***************************************************************************)
EXTENDS Integers, Sequences, FiniteSets, TLC

\* ------------------------------------------------------------------ bounds

\* Number of chart-bar slots on the time axis of a run.
NBars == 4
\* Chart-bar slots of the runs whose feed is drawn freely.
DataBars == 3
\* Most ta.* calls in the assignments of a compiled program.
MaxCalls == 2
\* Most nodes in the expression of a signal condition.
MaxNodes == 4
\* Most lines of a source whose indentation varies.
MaxLines == 4
\* Most lines of a source whose characters vary.
MaxLexLines == 2
\* Most binary operators in a generated expression.
MaxOps == 2
\* Most lines of a generated script.
MaxStmts == 2
\* Largest strategy.warmup tried (the code generator's 50 scaled down).
MaxWarmup == 2
\* MAX_CHART_BARS, the 5000 of backtester.py scaled down.
MAX_CHART_BARS == 2
\* Largest target_ticks handed to the resolution picker.
MaxTarget == 12

\* ------------------------------------------------------------- small helpers

SetMax(S) == CHOOSE x \in S : \A y \in S : y <= x
SetMin(S) == CHOOSE x \in S : \A y \in S : x <= y
Max2(a, b) == IF a >= b THEN a ELSE b
Min2(a, b) == IF a <= b THEN a ELSE b

\* Sum of the volume column of df over the timestamps in S.
RECURSIVE VolumeSum(_, _)
VolumeSum(df, S) ==
    IF S = {} THEN 0
    ELSE LET x == CHOOSE y \in S : TRUE IN df[x].volume + VolumeSum(df, S \ {x})

\* ----------------------------------------------------------------- data.py

\* _TF_MINUTES: minutes per timeframe literal; 0 stands for "not a key".
TF_MINUTES(tf) ==
    CASE tf = "1m" -> 1 [] tf = "3m" -> 3 [] tf = "5m" -> 5 [] tf = "15m" -> 15
      [] tf = "30m" -> 30 [] tf = "1h" -> 60 [] tf = "4h" -> 240 [] tf = "1d" -> 1440
      [] OTHER -> 0

\* _VALID_RESOLUTIONS, ascending.
VALID_RESOLUTIONS == <<1, 3, 5, 15, 30, 60, 240>>

\* _minutes_to_tf: the first timeframe literal with that many minutes.
MinutesToTf(m) ==
    CASE m = 1 -> "1m" [] m = 3 -> "3m" [] m = 5 -> "5m" [] m = 15 -> "15m"
      [] m = 30 -> "30m" [] m = 60 -> "1h" [] m = 240 -> "4h" [] m = 1440 -> "1d"
      [] OTHER -> "other"

\* A distance that keeps its sign.
Abs_Signed(x) == x

Abs(x) == IF x < 0 THEN -x ELSE x

\* A ceiling no tick count exceeds.
MaxTicks_None(target_ticks) == 1440

\* max_ticks = int(target_ticks * 1.6)
MaxTicks(target_ticks) == (target_ticks * 16) \div 10

\* The candidate loop of compute_magnifier_resolution from index k on, with the
\* best (resolution, distance) so far; distance -1 stands for float("inf").
RECURSIVE ResolutionLoop(_, _, _, _, _, _)
ResolutionLoop(k, chart_min, target_ticks, max_ticks, best_res, best_dist) ==
    IF k > Len(VALID_RESOLUTIONS) THEN best_res
    ELSE LET res_min == VALID_RESOLUTIONS[k]
             ticks   == chart_min \div res_min
             dist    == Abs(ticks - target_ticks)
             skip    == \/ res_min >= chart_min
                        \/ chart_min % res_min # 0
                        \/ ticks > max_ticks
             better  == ~skip /\ (best_dist = -1 \/ dist < best_dist)
         IN ResolutionLoop(k + 1, chart_min, target_ticks, max_ticks,
                           IF better THEN res_min ELSE best_res,
                           IF better THEN dist ELSE best_dist)

\* compute_magnifier_resolution(timeframe, target_ticks), in minutes.
MagnifierMinutes(tf, target_ticks) ==
    LET chart_min == TF_MINUTES(tf)
    IN IF chart_min <= 1 THEN 1
       ELSE ResolutionLoop(1, chart_min, target_ticks, MaxTicks(target_ticks), 1, -1)

compute_magnifier_resolution(tf) == MinutesToTf(MagnifierMinutes(tf, 10))

\* resample_ohlcv(df, timeframe): bins of m minutes aligned to 0, empty bins
\* dropped; open first, high max, low min, close last, volume sum.
resample_ohlcv(df, m) ==
    IF m = 1 THEN df
    ELSE LET bins == {(t \div m) * m : t \in DOMAIN df}
             In(b) == {t \in DOMAIN df : (t \div m) * m = b}
         IN [b \in bins |->
               [open   |-> df[SetMin(In(b))].open,
                high   |-> SetMax({df[t].high : t \in In(b)}),
                low    |-> SetMin({df[t].low : t \in In(b)}),
                close  |-> df[SetMax(In(b))].close,
                volume |-> VolumeSum(df, In(b))]]

\* index.searchsorted(t, side="left"): how many index entries lie before t.
searchsorted(index, t) == Cardinality({x \in index : x < t})

\* index[k]: the k-th timestamp (from 0) of an ascending index.
IndexAt(index, k) == CHOOSE t \in index : searchsorted(index, t) = k

\* -------------------------------------------------------------- the state

VARIABLES
    job_status,         \* Backtest.status of the job row
    job_progress,       \* Backtest.progress of the job row
    result_json,        \* Backtest.result_json of the job row (<<>>: NULL)
    progress_log,       \* the percents passed to on_progress, in call order
    pc,                 \* where execute_backtest_job / Backtester.run stands
    timeframe,          \* run(timeframe=...)
    magnify,            \* run(magnify=...)
    warmup,             \* strategy.warmup
    length,             \* the period parameter the strategy hands to its kernel
    strategy,           \* which compute the strategy carries ("any": unconstrained)
    df_1m, df_tf, df_mag,
    bar_idx, pos, pos_start, pos_end,
    in_long, in_short,
    long_entries_mag, long_exits_mag, short_entries_mag, short_exits_mag,
    forming,            \* the window's last row (forming_open .. forming_vol)
    evaluated,          \* the sub-bar positions at which compute was invoked
    pf,                 \* the call of vbt.Portfolio.from_signals, once made
    first_run,          \* the vectors an earlier run of the same job handed over
    changed,            \* the minute whose 1m row differs from that earlier run
    ast,                \* the parsed Program handed to CodeGenerator
    inputs,             \* CodeGenerator._inputs
    max_period,         \* CodeGenerator._max_period
    fast_mode,          \* CodeGenerator._fast_mode
    emitted,            \* statements of the current emission already lowered
    gen_pc,             \* where CodeGenerator.generate stands
    cond,               \* the signal condition's expression, in postfix order
    window,             \* the rows compute and compute_fast are called on
    python_src,         \* the condition as lowered into _compute
    python_fast_src,    \* the condition as lowered into _compute_fast
    batch_out,          \* what compute gave for the last row
    fast_out,           \* what compute_fast gave
    target_ticks,       \* compute_magnifier_resolution(target_ticks=...)
    picked,             \* what compute_magnifier_resolution returned
    cancel_token,       \* the cancellation token of the spec's section 4.5
    strategy_inputs,    \* strategy.inputs: name -> InputParam
    param_overrides,    \* run(**param_overrides)
    params,             \* the resolved parameter map of the run
    source,             \* Tokenizer._raw, as its lines (source.split("\n"))
    lines,              \* what _preprocess returned: (line_no, content) pairs
    tokens,             \* Tokenizer._tokens
    indent_stack,       \* tokenize's indent_stack
    line_k,             \* how many entries of lines the for loop has taken
    text,               \* the line content _tokenize_line scans
    scan_i,             \* _tokenize_line's i, counted from 1
    tk_pc,              \* where tokenize stands
    p_pos,              \* Parser._pos, counted from 1
    prog,               \* the Program that Parser.parse builds
    p_pc,               \* where Parser.parse stands
    signal_map,         \* CodeGenerator._signal_map, as its items in insertion order
    signal_return,      \* the four parts of the emitted return, batch and step
    kernel_args,        \* the arguments a numba kernel was called with
    kernel_state        \* the kernel's locals and arrays as its loop runs

jobVars  == <<job_status, job_progress, result_json, progress_log>>
cgVars   == <<ast, inputs, max_period, fast_mode, emitted, gen_pc>>
eqVars   == <<cond, window, python_src, python_fast_src, batch_out, fast_out>>
runCore  == <<timeframe, magnify, length, strategy, df_1m, first_run, changed>>
pickVars == <<target_ticks, picked>>
tokVars  == <<source, lines, tokens, indent_stack, line_k, text, scan_i, tk_pc>>
parVars  == <<p_pos, prog, p_pc>>
sigVars  == <<signal_map, signal_return>>
kernVars == <<kernel_args, kernel_state>>
sideVars == <<pickVars, cancel_token, strategy_inputs, param_overrides, tokVars, parVars,
              sigVars, kernVars>>
runIn    == <<runCore, eqVars, sideVars>>
inVars   == <<runIn, warmup, cgVars>>
loopVars == <<bar_idx, pos, pos_start, pos_end, in_long, in_short, forming, evaluated, params>>
outVars  == <<long_entries_mag, long_exits_mag, short_entries_mag, short_exits_mag>>
vars     == <<jobVars, inVars, loopVars, outVars, pc, df_tf, df_mag, pf>>

\* ------------------------------------------------------------ input frames

\* np.inf and -np.inf of the forming row's placeholders, outside every price.
NegInf == -1
PosInf == 99

\* Two 1-minute rows; every frame of the model is built from them.
LowBar  == [open |-> 1, high |-> 2, low |-> 1, close |-> 1, volume |-> 1]
HighBar == [open |-> 2, high |-> 3, low |-> 2, close |-> 3, volume |-> 2]
Shapes  == {LowBar, HighBar}

\* Minutes of the time axis for a chart timeframe: NBars chart-bar slots.
Horizon(tf) == 0 .. (NBars * TF_MINUTES(tf) - 1)

\* The feeds of the data-driven specification: DataBars chart-bar slots of a
\* 3m chart, no gap, the first chart bar as in the fixed feed and every later
\* minute either row.
FreeFrames ==
    {f \in [0 .. (DataBars * 3 - 1) -> Shapes] :
        \A t \in 0 .. 2 : f[t] = IF t % 2 = 0 THEN LowBar ELSE HighBar}

\* The minutes missing from the 1-minute feed: none, one minute inside chart
\* bar 1, the whole of chart bar 1 (a closed market), or everything after
\* chart bar 0 (a feed shorter than the warmup).
GapSets(tf) ==
    LET m == TF_MINUTES(tf)
    IN {{}, {m}, m .. (2 * m - 1), m .. (NBars * m - 1)}

\* The fixed feed of the signal-driven specification.
FixedFrame(tf, gap) ==
    [t \in Horizon(tf) \ gap |-> IF t % 2 = 0 THEN LowBar ELSE HighBar]

Timeframes == {"1m", "3m"}
Warmups    == 1 .. MaxWarmup
\* Period parameters: 0 is the malformed length, 2 a sound one.
Lengths    == {0, 2}

\* ------------------------------------------------------- strategy.compute

\* A last-row value of a signal series as the engine reads it.
Vals == {"true", "false", "nan"}
Raise == [raised |-> TRUE]
SignalTuples == [le : Vals, lx : Vals, se : Vals, sx : Vals]

\* _sma / _rma divide by the length: a length of 0 raises ZeroDivisionError
\* on every call, whatever the window.
KernelRaises(L) == L = 0

\* What one compute(window, params) call may do when nothing is known of the
\* strategy but its period parameter.
ComputeResults(L) ==
    IF KernelRaises(L) THEN {Raise} ELSE SignalTuples \cup {Raise}

\* bool(x.iloc[-1]) if not pd.isna(x.iloc[-1]) else False
Coerce(v) == v = "true"

\* ----------------------------------------------------- Backtester.run

\* mode = "magnifier" if (magnify and timeframe != "1m") else "standard"
Mode == IF magnify /\ timeframe # "1m" THEN "magnifier" ELSE "standard"

NoForming == [open |-> 0, high |-> NegInf, low |-> PosInf, close |-> 0, volume |-> 0]
NoPortfolio ==
    [called |-> FALSE, index |-> {}, entries |-> {}, exits |-> {},
     short_entries |-> {}, short_exits |-> {}]

\* A loop that starts at the first chart bar instead.
LoopStart_Zero(w) == 0

\* range(warmup, len(tf_index)) starts at warmup.
LoopStart(w) == w

\* sampled_ohlcv = df_tf.iloc[::ohlcv_step] with
\* ohlcv_step = max(1, len(df_tf) // MAX_CHART_BARS): the chart rows at
\* positions 0, step, 2 * step, ...
ohlcv_bars_of(df) ==
    LET n          == Cardinality(DOMAIN df)
        ohlcv_step == Max2(1, n \div MAX_CHART_BARS)
    IN [k \in 1 .. ((n + ohlcv_step - 1) \div ohlcv_step) |->
           df[IndexAt(DOMAIN df, (k - 1) * ohlcv_step)]]

\* _extract_result: of the BacktestResult the model carries the portfolio,
\* the marks its trade records come from, and the chart bars.
extract_result(portfolio, df) ==
    [portfolio  |-> portfolio,
     signals    |-> [entries |-> portfolio.entries, exits |-> portfolio.exits,
                     short_entries |-> portfolio.short_entries,
                     short_exits |-> portfolio.short_exits],
     ohlcv_bars |-> ohlcv_bars_of(df)]

\* BacktestResult.to_dict: the fields of the result without the portfolio.
to_dict(result) == [k \in DOMAIN result \ {"portfolio"} |-> result[k]]

\* execute_backtest_job up to its first commit.
JobStart ==
    /\ pc = "pending"
    /\ job_status' = "running"
    /\ job_progress' = 0
    /\ pc' = "run"
    /\ UNCHANGED <<result_json, progress_log, inVars, loopVars, outVars, df_tf, df_mag, pf>>

\* on_progress as execute_backtest_job defines it: every call is committed.
Report(pcts) ==
    /\ progress_log' = progress_log \o pcts
    /\ job_progress' = pcts[Len(pcts)]

\* params: Dict[str, Any] = {}
NoParams == [n \in {} |-> 0]

\* val = overrides.get(key, inp.default)
ParamValue(ins, overrides, key) ==
    IF key \in DOMAIN overrides THEN overrides[key] ELSE ins[key].default

\* A lower-bound test that turns the bound itself away.
BelowMin_Inclusive(val, minval) == val <= minval

\* val < inp.minval
BelowMin(val, minval) == val < minval

\* val > inp.maxval
AboveMax(val, maxval) == val > maxval

\* _resolve_params raises ValueError for some input.
ResolveRaises(ins, overrides) ==
    \E key \in DOMAIN ins :
        /\ ins[key].kind \in {"int", "float"}
        /\ \/ ins[key].has_minval /\ BelowMin(ParamValue(ins, overrides, key), ins[key].minval)
           \/ ins[key].has_maxval /\ AboveMax(ParamValue(ins, overrides, key), ins[key].maxval)

\* The map _resolve_params returns.
resolve_params(ins, overrides) == [key \in DOMAIN ins |-> ParamValue(ins, overrides, key)]

\* Compile, then Backtester.run down to the mode dispatch, magnifier set-up
\* included (_run_magnified up to its outer loop).
RunPrepare ==
    /\ pc = "run"
    /\ IF ResolveRaises(strategy_inputs, param_overrides)
         THEN /\ Report(<<5>>)
              /\ pc' = "raised"
              /\ UNCHANGED <<params, df_tf, df_mag, bar_idx>>
         ELSE /\ params' = resolve_params(strategy_inputs, param_overrides)
              /\ df_tf' = resample_ohlcv(df_1m, TF_MINUTES(timeframe))
              /\ IF Mode = "magnifier"
                   THEN /\ Report(<<5, 10, 15, 18>>)
                        /\ df_mag' = resample_ohlcv(df_1m, MagnifierMinutes(timeframe, 10))
                        /\ bar_idx' = LoopStart(warmup)
                        /\ pc' = "bar"
                   ELSE /\ Report(<<5, 10, 15, 20>>)
                        /\ UNCHANGED <<df_mag, bar_idx>>
                        /\ pc' = "standard"
    /\ UNCHANGED <<job_status, result_json, inVars, pos, pos_start, pos_end, in_long, in_short,
                   forming, evaluated, outVars, pf>>

\* The chart-bar positions a series of the standard mode may mark: at most one
\* per series.
StdVectors(n) == {{}} \cup {{i} : i \in 0 .. (n - 1)}

\* _run_standard: one compute over the whole chart frame, its four series
\* handed to the portfolio simulator as they are.
RunStandard ==
    /\ pc = "standard"
    /\ \/ /\ Raise \in ComputeResults(length)
          /\ pc' = "raised"
          /\ UNCHANGED <<pf, progress_log, job_progress>>
       \/ /\ ~KernelRaises(length)
          /\ \E le \in StdVectors(Cardinality(DOMAIN df_tf)),
                lx \in StdVectors(Cardinality(DOMAIN df_tf)),
                se \in StdVectors(Cardinality(DOMAIN df_tf)),
                sx \in StdVectors(Cardinality(DOMAIN df_tf)) :
                pf' = [called |-> TRUE, index |-> DOMAIN df_tf,
                       entries |-> le, exits |-> lx,
                       short_entries |-> se, short_exits |-> sx]
          /\ Report(<<40, 50>>)
          /\ pc' = "extract"
    /\ UNCHANGED <<job_status, result_json, inVars, loopVars, outVars, df_tf, df_mag>>

\* ------------------------------------------- Backtester._run_magnified

tf_index  == DOMAIN df_tf
mag_index == DOMAIN df_mag

\* A loop percent that starts below the set-up reports.
OverallPct_From10(bars_done, total_bars) == 10 + (bars_done * 68) \div Max2(1, total_bars)

\* overall_pct = 20 + int(loop_pct * 68), loop_pct = bars_done / max(1, total_bars)
OverallPct(bars_done, total_bars) == 20 + (bars_done * 68) \div Max2(1, total_bars)

\* The progress report at the head of the outer loop body.
LoopReport ==
    LET bars_done == bar_idx - warmup
        total_bars == Cardinality(tf_index) - warmup
        report_interval == Max2(1, total_bars \div 50)
    IN IF bars_done % report_interval = 0
         THEN Report(<<OverallPct(bars_done, total_bars)>>)
         ELSE UNCHANGED <<progress_log, job_progress>>

\* The outer loop body down to the inner loop: the sub-bar span and the
\* forming row's placeholders.
BarStart ==
    /\ pc = "bar"
    /\ bar_idx < Cardinality(tf_index)
    /\ LoopReport
    /\ LET bar_start == IndexAt(tf_index, bar_idx)
           bar_end   == bar_start + TF_MINUTES(timeframe)
           ps        == searchsorted(mag_index, bar_start)
           pe        == searchsorted(mag_index, bar_end)
       IN /\ pos_start' = ps
          /\ pos_end' = pe
          /\ IF ps >= pe
               THEN /\ bar_idx' = bar_idx + 1
                    /\ UNCHANGED <<pos, forming, pc>>
               ELSE /\ pos' = ps
                    /\ forming' = [NoForming EXCEPT !.open = df_mag[IndexAt(mag_index, ps)].open]
                    /\ pc' = "sub"
                    /\ UNCHANGED bar_idx
    /\ UNCHANGED <<job_status, result_json, inVars, in_long, in_short, evaluated, outVars,
                   df_tf, df_mag, pf, params>>

\* An if-chain whose long entry forgets to test in_long.
Transition_Reenter(il, is, r) ==
    IF Coerce(r.le) THEN "long_entry"
    ELSE IF il /\ Coerce(r.lx) THEN "long_exit"
    ELSE IF ~is /\ Coerce(r.se) THEN "short_entry"
    ELSE IF is /\ Coerce(r.sx) THEN "short_exit"
    ELSE "none"

\* The if-chain of the position state machine: which transition fires.
Transition(il, is, r) ==
    IF ~il /\ Coerce(r.le) THEN "long_entry"
    ELSE IF il /\ Coerce(r.lx) THEN "long_exit"
    ELSE IF ~is /\ Coerce(r.se) THEN "short_entry"
    ELSE IF is /\ Coerce(r.sx) THEN "short_exit"
    ELSE "none"

\* An if-chain whose exit branches lack their break.
Breaks_EntriesOnly(kind) == kind \in {"long_entry", "short_entry"}

\* Every branch of the if-chain ends in break.
Breaks(kind) == kind # "none"

\* A handler that leaves the sub-bar loop instead.
ExceptionAction_Break == "break"

\* except Exception: continue
ExceptionAction == "continue"

\* One pass of the inner loop at sub-bar pos, compute ending as result.
SubBar(result) ==
    /\ pc = "sub"
    /\ LET row  == df_mag[IndexAt(mag_index, pos)]
           kind == IF result = Raise THEN "none"
                   ELSE Transition(in_long, in_short, result)
           leave == IF result = Raise THEN ExceptionAction = "break"
                    ELSE Breaks(kind)
       IN /\ forming' = [open   |-> forming.open,
                         high   |-> Max2(forming.high, row.high),
                         low    |-> Min2(forming.low, row.low),
                         close  |-> row.close,
                         volume |-> forming.volume + row.volume]
          /\ evaluated' = evaluated \cup {pos}
          /\ long_entries_mag' =
                IF kind = "long_entry" THEN long_entries_mag \cup {pos} ELSE long_entries_mag
          /\ long_exits_mag' =
                IF kind = "long_exit" THEN long_exits_mag \cup {pos} ELSE long_exits_mag
          /\ short_entries_mag' =
                IF kind = "short_entry" THEN short_entries_mag \cup {pos} ELSE short_entries_mag
          /\ short_exits_mag' =
                IF kind = "short_exit" THEN short_exits_mag \cup {pos} ELSE short_exits_mag
          /\ in_long' = CASE kind = "long_entry" -> TRUE
                          [] kind = "long_exit" -> FALSE
                          [] OTHER -> in_long
          /\ in_short' = CASE kind = "short_entry" -> TRUE
                           [] kind = "short_exit" -> FALSE
                           [] OTHER -> in_short
          /\ IF leave \/ pos + 1 >= pos_end
               THEN /\ bar_idx' = bar_idx + 1
                    /\ pc' = "bar"
                    /\ UNCHANGED pos
               ELSE /\ pos' = pos + 1
                    /\ UNCHANGED <<bar_idx, pc>>
    /\ UNCHANGED <<jobVars, inVars, pos_start, pos_end, df_tf, df_mag, pf, params>>

\* The inner-loop pass of a strategy of which only the period is known.
SubBarAny == \E result \in ComputeResults(length) : SubBar(result)

\* After the outer loop: the four vectors go to the portfolio simulator.
LoopEnd ==
    /\ pc = "bar"
    /\ bar_idx >= Cardinality(tf_index)
    /\ Report(<<88>>)
    /\ pf' = [called |-> TRUE, index |-> mag_index,
              entries |-> long_entries_mag, exits |-> long_exits_mag,
              short_entries |-> short_entries_mag, short_exits |-> short_exits_mag]
    /\ pc' = "extract"
    /\ UNCHANGED <<job_status, result_json, inVars, loopVars, outVars, df_tf, df_mag>>

\* Backtester.run after the mode's routine returned.
RunFinish ==
    /\ pc = "extract"
    /\ Report(<<90, 95, 100>>)
    /\ pc' = "returned"
    /\ UNCHANGED <<job_status, result_json, inVars, loopVars, outVars, df_tf, df_mag, pf>>

\* A job that commits its status before the result is written.
JobComplete_StatusFirst ==
    /\ pc = "returned"
    /\ job_status' = "completed"
    /\ job_progress' = 100
    /\ pc' = "done"
    /\ UNCHANGED <<result_json, progress_log, inVars, loopVars, outVars, df_tf, df_mag, pf>>

\* execute_backtest_job after run returned: the result is written.
JobComplete ==
    /\ pc = "returned"
    /\ job_status' = "completed"
    /\ job_progress' = 100
    /\ result_json' = <<to_dict(extract_result(pf, df_tf))>>
    /\ pc' = "done"
    /\ UNCHANGED <<progress_log, inVars, loopVars, outVars, df_tf, df_mag, pf>>

\* execute_backtest_job's except branch.
JobFail ==
    /\ pc = "raised"
    /\ job_status' = "failed"
    /\ pc' = "done"
    /\ UNCHANGED <<job_progress, result_json, progress_log, inVars, loopVars, outVars, df_tf, df_mag, pf>>

\* ---------------------------------------------------------- specification

InitRun ==
    /\ job_status = "pending"
    /\ job_progress = 0
    /\ result_json = <<>>
    /\ progress_log = <<>>
    /\ pc = "pending"
    /\ df_tf = <<>>
    /\ df_mag = <<>>
    /\ bar_idx = 0 /\ pos = 0 /\ pos_start = 0 /\ pos_end = 0
    /\ in_long = FALSE /\ in_short = FALSE
    /\ long_entries_mag = {} /\ long_exits_mag = {}
    /\ short_entries_mag = {} /\ short_exits_mag = {}
    /\ forming = NoForming
    /\ evaluated = {}
    /\ pf = NoPortfolio
    /\ params = NoParams

NoRun == [saved |-> FALSE, entries |-> {}, exits |-> {}, short_entries |-> {},
          short_exits |-> {}]

\* CodeGenerator.__init__ : no input registered, an empty Program.
NoInputs == [n \in {} |-> 0]
NoAst    == [inputs |-> <<>>, calls |-> <<>>]

\* No code generator at work: the run was handed a finished strategy.
CgIdle ==
    /\ ast = NoAst
    /\ inputs = NoInputs
    /\ max_period = 0
    /\ fast_mode = FALSE
    /\ emitted = 0
    /\ gen_pc = "generated"

\* No condition under comparison.
NotRun == [raised |-> FALSE, value |-> "unset"]

\* No call of the resolution picker on its own.
PickIdle ==
    /\ target_ticks = 10
    /\ picked = ""

\* Nothing but the run itself is at work.
\* A strategy without inputs, run without overrides.
ParamsIdle == strategy_inputs = NoParams /\ param_overrides = NoParams

\* No tokenizer at work.
TokIdle ==
    /\ source = <<>>
    /\ lines = <<>>
    /\ tokens = <<>>
    /\ indent_stack = <<0>>
    /\ line_k = 0
    /\ text = <<>>
    /\ scan_i = 1
    /\ tk_pc = "done"

\* What Program() holds.
NoProgram ==
    [version |-> 6, strategy_decl |-> <<>>, inputs |-> <<>>, assignments |-> <<>>,
     if_blocks |-> <<>>]

\* No parser at work.
ParIdle == p_pos = 1 /\ prog = NoProgram /\ p_pc = "idle"

\* No signal analysis and no kernel at work.
NoReturn == [batch |-> <<>>, step |-> <<>>]
SigIdle  == signal_map = <<>> /\ signal_return = NoReturn
NoKernel == [name |-> "none"]
KernIdle == kernel_args = NoKernel /\ kernel_state = NoKernel

SideIdle ==
    /\ PickIdle /\ cancel_token = FALSE /\ ParamsIdle /\ TokIdle /\ ParIdle
    /\ SigIdle /\ KernIdle

EqIdle ==
    /\ cond = <<>>
    /\ window = <<>>
    /\ python_src = <<>>
    /\ python_fast_src = <<>>
    /\ batch_out = NotRun
    /\ fast_out = NotRun

Init ==
    /\ InitRun
    /\ first_run = NoRun
    /\ changed = -1
    /\ CgIdle
    /\ EqIdle
    /\ SideIdle
    /\ timeframe \in Timeframes
    /\ magnify \in BOOLEAN
    /\ warmup \in Warmups
    /\ length \in Lengths
    /\ strategy = "any"
    /\ \E gap \in GapSets(timeframe) : df_1m = FixedFrame(timeframe, gap)

Next ==
    \/ JobStart
    \/ RunPrepare
    \/ RunStandard
    \/ BarStart
    \/ SubBarAny
    \/ LoopEnd
    \/ RunFinish
    \/ JobComplete
    \/ JobFail

Spec == Init /\ [][Next]_vars

\* ------------------------------------------------- magnifier loop: claims

AllMarks ==
    long_entries_mag \cup long_exits_mag \cup short_entries_mag \cup short_exits_mag

\* How many entries of the four vectors together are set inside S.
MarkCount(S) ==
    Cardinality(long_entries_mag \cap S) + Cardinality(long_exits_mag \cap S)
    + Cardinality(short_entries_mag \cap S) + Cardinality(short_exits_mag \cap S)

\* Timestamp of sub-bar position p, and the chart bar (by index) it lies in.
MagTime(p) == IndexAt(mag_index, p)
ChartBarOf(p) ==
    searchsorted(tf_index, (MagTime(p) \div TF_MINUTES(timeframe)) * TF_MINUTES(timeframe))

\* The sub-bar span [pos_start, pos_end) of chart bar i.
Span(i) == {p \in 0 .. (Cardinality(mag_index) - 1) : ChartBarOf(p) = i}

InMagnifier == Mode = "magnifier" /\ pc \in {"bar", "sub", "extract", "returned", "done"}

\* C1: at most one of in_long and in_short is true after every processed
\* sub-bar of a magnifier run.
C1_AtMostOnePosition == ~(in_long /\ in_short)

\* C2: in a magnifier run every chart bar i >= warmup holds at most one set
\* entry of the four output vectors together inside its sub-bar span, and no
\* sub-bar of the bar after a recorded transition is evaluated.
C2_OneTransitionPerBar ==
    InMagnifier =>
        LET bar == [p \in AllMarks \cup evaluated |-> ChartBarOf(p)]
            in_bar(i) == {p \in DOMAIN bar : bar[p] = i}
        IN \A i \in {bar[p] : p \in DOMAIN bar} :
               /\ MarkCount(in_bar(i)) <= 1
               /\ \A m \in AllMarks \cap in_bar(i) :
                      \A q \in evaluated \cap in_bar(i) : q <= m

\* C2 witness: a bar whose transition was recorded before its last sub-bar,
\* with the run past the loop.
C2_Witness ==
    /\ InMagnifier /\ pc = "extract"
    /\ \E i \in 0 .. (Cardinality(tf_index) - 1) :
           \E m \in AllMarks \cap Span(i) : m + 1 \in Span(i)

\* C5: a compute call that raises at sub-bar p sets no entry of any output
\* vector, leaves in_long and in_short alone, and the loop goes on with
\* sub-bar p+1 of the same chart bar when the bar has one.
C5_RaiseIsNoSignal ==
    [][SubBar(Raise) =>
          /\ outVars' = outVars
          /\ in_long' = in_long /\ in_short' = in_short
          /\ pc' \in {"sub", "bar"}
          /\ (pos + 1 < pos_end => pos' = pos + 1 /\ bar_idx' = bar_idx /\ pc' = "sub")]_vars

\* C5 witness: every call raises (malformed length) and the loop stands at a
\* later sub-bar of a bar: the raise at the sub-bar before was passed over.
C5_Witness ==
    /\ KernelRaises(length) /\ pc = "sub" /\ pos > pos_start
    /\ pos - 1 \in evaluated

\* C6: a kernel error caused by a malformed length is fatal in both modes:
\* run returns no result and the job never completes.
C6_KernelErrorIsFatal ==
    KernelRaises(length) => pc # "returned" /\ job_status # "completed"

\* The transition the state machine of the claim records: entries only from
\* no position, exits only from the matching position, first applicable in
\* the order long_entry, long_exit, short_entry, short_exit.
ClaimedTransition(r) ==
    LET flat == ~in_long /\ ~in_short
    IN IF flat /\ Coerce(r.le) THEN "long_entry"
       ELSE IF in_long /\ Coerce(r.lx) THEN "long_exit"
       ELSE IF flat /\ Coerce(r.se) THEN "short_entry"
       ELSE IF in_short /\ Coerce(r.sx) THEN "short_exit"
       ELSE "none"

\* What a step wrote into the four vectors.
Recorded(kind) ==
    /\ long_entries_mag' = IF kind = "long_entry" THEN long_entries_mag \cup {pos}
                           ELSE long_entries_mag
    /\ long_exits_mag' = IF kind = "long_exit" THEN long_exits_mag \cup {pos}
                         ELSE long_exits_mag
    /\ short_entries_mag' = IF kind = "short_entry" THEN short_entries_mag \cup {pos}
                            ELSE short_entries_mag
    /\ short_exits_mag' = IF kind = "short_exit" THEN short_exits_mag \cup {pos}
                          ELSE short_exits_mag

\* C7: an entry is recorded only when the engine is in no position, an exit
\* only when it is in the matching position, and of several signals at one
\* sub-bar the first applicable one in the order long_entry, long_exit,
\* short_entry, short_exit is the one recorded.
C7_StateMachine ==
    [][\A r \in SignalTuples : SubBar(r) => Recorded(ClaimedTransition(r))]_vars

\* Entries minus exits among the marks at positions <= q.
Open(entries, exits, q) ==
    Cardinality({e \in entries : e <= q}) - Cardinality({x \in exits : x <= q})

Alternates(entries, exits) ==
    /\ entries \cap exits = {}
    /\ \A q \in entries \cup exits : Open(entries, exits, q) \in {0, 1}

\* C8: long-entry and long-exit marks alternate in time order starting with
\* an entry, so do short-entry and short-exit marks, and every mark is
\* written at a position above all marks written before.
C8_Alternation ==
    /\ [](Alternates(long_entries_mag, long_exits_mag)
          /\ Alternates(short_entries_mag, short_exits_mag))
    /\ [][\A m \in AllMarks' \ AllMarks : \A o \in AllMarks : o < m]_vars

\* C8 witness: a long entry, its exit and a second long entry.
C8_Witness ==
    /\ Cardinality(long_entries_mag) >= 2
    /\ Cardinality(long_exits_mag) >= 1

\* Timestamp of position p of the series handed to the portfolio simulator.
PfTime(p) == IndexAt(pf.index, p)
PfSignals == pf.entries \cup pf.exits \cup pf.short_entries \cup pf.short_exits

\* No signal handed over lies before the start of chart bar number warmup
\* (no signal at all when the frame has no such bar).
NoSignalBeforeWarmup ==
    pf.called =>
        /\ warmup >= Cardinality(tf_index) => PfSignals = {}
        /\ warmup < Cardinality(tf_index) =>
               \A p \in PfSignals : PfTime(p) >= IndexAt(tf_index, warmup)

\* C9: in either mode no signal handed to the portfolio simulator lies
\* before the start of chart bar number warmup.
C9_WarmupSkippedBothModes == NoSignalBeforeWarmup

\* C9 as amended: the magnifier loop skips chart bars with index < warmup;
\* the standard mode hands compute's vectors over as they are.
C9_WarmupSkippedMagnifier == Mode = "magnifier" => NoSignalBeforeWarmup

\* C9 witness: a magnifier run handed a signal to the portfolio simulator.
C9_Witness == Mode = "magnifier" /\ pf.called /\ PfSignals # {}

\* ------------------------------------------------------- code generator

\* Numbers of the dialect are held in tenths, so that 20.5 is 205.
Numbers == {5, 140, 205, 500, 10000, 10010}

\* int(x) of a non-negative number.
IntOf(x) == x \div 10

\* A positional argument of a ta.* call: a numeric Literal, an Ident or any
\* other expression.
LitArg(v)   == [node |-> "Literal", value |-> v, name |-> ""]
IdentArg(n) == [node |-> "Ident", value |-> 0, name |-> n]
SeriesArg   == [node |-> "PropertyAccess", value |-> 0, name |-> "close"]

PeriodArgs == {LitArg(v) : v \in Numbers} \cup {IdentArg("len"), IdentArg("fast")}

\* ta.sma(close, x)-like calls and a three-argument call.
Calls == {<<SeriesArg, a>> : a \in PeriodArgs}
         \cup {<<SeriesArg, LitArg(140), a>> : a \in {LitArg(205), IdentArg("len")}}

\* InputDecl lists: none, or one declaration of len.
InputDecls ==
    {<<>>} \cup
    {<<[var_name |-> "len", input_type |-> t, default |-> d]>> :
        t \in {"int", "float", "bool"}, d \in {25, 205, 500, 20000}}


\* IntInput(default=int(..)) / FloatInput(default=float(..)) / BoolInput
InputParam(decl) ==
    [kind    |-> decl.input_type,
     default |-> IF decl.input_type = "int" THEN IntOf(decl.default) * 10
                 ELSE decl.default]

\* Period tracking that lets every numeric literal through.
TrackArg_NoRange(mp, arg, inp) ==
    IF arg.node = "Literal" THEN Max2(mp, IntOf(arg.value))
    ELSE IF arg.node = "Ident" /\ arg.name \in DOMAIN inp
              /\ inp[arg.name].kind \in {"int", "float"}
         THEN Max2(mp, IntOf(inp[arg.name].default))
    ELSE mp

\* One pass of _track_period's loop body.
TrackArg(mp, arg, inp) ==
    IF arg.node = "Literal"
    THEN LET val == IntOf(arg.value)
         IN IF 1 <= val /\ val <= 1000 THEN Max2(mp, val) ELSE mp
    ELSE IF arg.node = "Ident" /\ arg.name \in DOMAIN inp
              /\ inp[arg.name].kind \in {"int", "float"}
         THEN Max2(mp, IntOf(inp[arg.name].default))
    ELSE mp

RECURSIVE TrackPeriod(_, _, _, _)
TrackPeriod(mp, args, k, inp) ==
    IF k > Len(args) THEN mp
    ELSE TrackPeriod(TrackArg(mp, args[k], inp), args, k + 1, inp)

\* _emit_compute's input loop: one declaration registered in _inputs.
EmitInput ==
    /\ gen_pc = "inputs"
    /\ emitted < Len(ast.inputs)
    /\ LET decl == ast.inputs[emitted + 1]
       IN inputs' = [n \in DOMAIN inputs \cup {decl.var_name} |->
                        IF n = decl.var_name THEN InputParam(decl) ELSE inputs[n]]
    /\ emitted' = emitted + 1
    /\ UNCHANGED <<ast, max_period, fast_mode, gen_pc, warmup>>
    /\ UNCHANGED <<jobVars, runIn, loopVars, outVars, pc, df_tf, df_mag, pf>>

\* The input loop is over: on to the assignments.
InputsDone ==
    /\ gen_pc = "inputs"
    /\ emitted = Len(ast.inputs)
    /\ gen_pc' = "assignments"
    /\ emitted' = 0
    /\ UNCHANGED <<ast, inputs, max_period, fast_mode, warmup>>
    /\ UNCHANGED <<jobVars, runIn, loopVars, outVars, pc, df_tf, df_mag, pf>>

\* _emit_assignment of a statement whose right side is a ta.* call.
EmitAssignment ==
    /\ gen_pc = "assignments"
    /\ emitted < Len(ast.calls)
    /\ max_period' = TrackPeriod(max_period, ast.calls[emitted + 1], 1, inputs)
    /\ emitted' = emitted + 1
    /\ UNCHANGED <<ast, inputs, fast_mode, gen_pc, warmup>>
    /\ UNCHANGED <<jobVars, runIn, loopVars, outVars, pc, df_tf, df_mag, pf>>

\* _emit_compute has lowered every statement: _emit_compute_fast lowers the
\* assignments again, its input loop registering nothing.
EmitComputeFast ==
    /\ gen_pc = "assignments"
    /\ emitted = Len(ast.calls)
    /\ ~fast_mode
    /\ fast_mode' = TRUE
    /\ emitted' = 0
    /\ UNCHANGED <<ast, inputs, max_period, gen_pc, warmup>>
    /\ UNCHANGED <<jobVars, runIn, loopVars, outVars, pc, df_tf, df_mag, pf>>

\* generate's return: TransformedStrategy(warmup=max(_max_period * 3, 50)).
Generate ==
    /\ gen_pc = "assignments"
    /\ emitted = Len(ast.calls)
    /\ fast_mode
    /\ fast_mode' = FALSE
    /\ warmup' = Max2(max_period * 3, 50)
    /\ gen_pc' = "generated"
    /\ UNCHANGED <<ast, inputs, max_period, emitted>>
    /\ UNCHANGED <<jobVars, runIn, loopVars, outVars, pc, df_tf, df_mag, pf>>

CallLists == UNION {[1 .. n -> Calls] : n \in 1 .. MaxCalls}

InitWarmup ==
    /\ InitRun
    /\ first_run = NoRun
    /\ changed = -1
    /\ EqIdle
    /\ SideIdle
    /\ timeframe = "1m"
    /\ magnify = FALSE
    /\ length = 2
    /\ strategy = "any"
    /\ df_1m = FixedFrame("1m", {})
    /\ warmup = 50
    /\ ast \in {[inputs |-> i, calls |-> c] : i \in InputDecls, c \in CallLists}
    /\ inputs = NoInputs
    /\ max_period = 0
    /\ fast_mode = FALSE
    /\ emitted = 0
    /\ gen_pc = "inputs"

NextWarmup ==
    \/ EmitInput
    \/ InputsDone
    \/ EmitAssignment
    \/ EmitComputeFast
    \/ Generate

SpecWarmup == InitWarmup /\ [][NextWarmup]_vars

\* ----------------------------------------------------- warmup: claims

\* The positional arguments of every ta.* call of the program.
AllArgs == UNION {{ast.calls[i][j] : j \in DOMAIN ast.calls[i]} : i \in DOMAIN ast.calls}

\* The declared int/float inputs, by name, with the default they register.
NumericInputs ==
    {d \in {ast.inputs[i] : i \in DOMAIN ast.inputs} : d.input_type \in {"int", "float"}}

InputDefaults(n) == {InputParam(d).default : d \in {e \in NumericInputs : e.var_name = n}}

\* Every numeric value passed positionally, as a literal or through an input.
PassedValues ==
    {a.value : a \in {b \in AllArgs : b.node = "Literal"}}
    \cup UNION {InputDefaults(a.name) : a \in {b \in AllArgs : b.node = "Ident"}}

\* The periods generate counts: int() of a literal when that lies in 1..1000,
\* int() of an int/float input's default whatever it is.
CountedPeriods ==
    {IntOf(a.value) : a \in {b \in AllArgs : b.node = "Literal" /\ 1 <= IntOf(b.value)
                                             /\ IntOf(b.value) <= 1000}}
    \cup {IntOf(v) : v \in UNION {InputDefaults(a.name) :
                                    a \in {b \in AllArgs : b.node = "Ident"}}}

Generated == gen_pc = "generated" /\ ast # NoAst

\* input.int(50) handed to ta.sma(close, len) and nothing else.
SmaOfInput50 ==
    /\ ast.inputs = <<[var_name |-> "len", input_type |-> "int", default |-> 500]>>
    /\ ast.calls = <<<<SeriesArg, IdentArg("len")>>>>

\* C10 as stated: warmup = max(3 * P, 50) with P the largest numeric value
\* passed positionally to a ta.* call (literal or int/float input default,
\* 0 if none); input.int(50) as SMA period gives 150; warmup >= 50.
C10_WarmupOfLargestValue ==
    Generated =>
        /\ warmup * 10 = Max2(3 * SetMax(PassedValues \cup {0}), 500)
        /\ SmaOfInput50 => warmup = 150
        /\ warmup >= 50

\* C10 amended: warmup = max(3 * P, 50) with P the largest of int(v) over
\* numeric literal arguments v with 1 <= int(v) <= 1000 and of int(default)
\* over identifier arguments naming an int/float input, 0 if none;
\* input.int(50) as SMA period gives 150; warmup is an integer >= 50.
C10_WarmupOfCountedPeriods ==
    Generated =>
        /\ warmup = Max2(3 * SetMax(CountedPeriods \cup {0}), 50)
        /\ SmaOfInput50 => warmup = 150
        /\ warmup \in Nat /\ warmup >= 50

\* C10 witness: a generated strategy whose program passes a literal above
\* 1000 and an input of default 50, and whose warmup is 150.
C10_Witness ==
    /\ Generated
    /\ LitArg(10010) \in AllArgs
    /\ IdentArg("len") \in AllArgs
    /\ \E i \in DOMAIN ast.inputs : ast.inputs[i].input_type = "int" /\ ast.inputs[i].default = 500
    /\ warmup = 150

\* ------------------------------------------- runs of a given strategy

\* The window's last row as compute sees it at sub-bar pos: the forming row
\* after the inner loop's update.
FormingNow ==
    LET row == df_mag[IndexAt(mag_index, pos)]
    IN [open   |-> forming.open,
        high   |-> Max2(forming.high, row.high),
        low    |-> Min2(forming.low, row.low),
        close  |-> row.close,
        volume |-> forming.volume + row.volume]

\* A window whose last row is the finished chart bar (tf rows up to bar_idx).
WindowLast_Completed == df_tf[IndexAt(tf_index, bar_idx)]

\* window.iloc[-1]
WindowLast == FormingNow

\* A window that keeps every chart row from the first one.
Window_Whole ==
    [k \in 1 .. bar_idx |-> df_tf[IndexAt(tf_index, k - 1)]] \o <<WindowLast>>

\* The window handed to compute: chart rows max(0, bar_idx - 3*warmup) ..
\* bar_idx - 1, then the forming row.
Window ==
    LET window_size == warmup * 3
        win_start   == Max2(0, bar_idx - window_size)
        n_completed == bar_idx - win_start
    IN [k \in 1 .. n_completed |-> df_tf[IndexAt(tf_index, win_start + k - 1)]]
       \o <<WindowLast>>

BoolVal(b) == IF b THEN "true" ELSE "false"

\* The last-row signals of three compiled strategies on window w; a series
\* that looks back further than the window reaches is NaN there.
Compute(name, w) ==
    LET n    == Len(w)
        last == w[n]
        prev == w[n - 1]
    IN CASE name = "breakout" ->
              [le |-> BoolVal(last.close > prev.close),
               lx |-> BoolVal(last.close < prev.low),
               se |-> BoolVal(last.low < prev.low),
               sx |-> BoolVal(last.high > prev.high)]
         [] name = "volume" ->
              [le |-> BoolVal(last.volume >= prev.volume),
               lx |-> BoolVal(last.volume > prev.volume),
               se |-> "false",
               sx |-> "false"]
         [] name = "lookback" ->
              [le |-> IF n < 3 THEN "nan" ELSE BoolVal(last.high > w[n - 2].close),
               lx |-> IF n < 3 THEN "nan" ELSE BoolVal(last.close <= w[n - 2].close),
               se |-> BoolVal(last.close < last.open),
               sx |-> BoolVal(last.close > last.open)]

DataStrategies == {"breakout", "volume", "lookback"}

\* The inner-loop pass of a run whose strategy is one of the above.
SubBarData == SubBar(Compute(strategy, Window))

\* The same job submitted again over a feed that differs in one minute: the
\* finished run's vectors are kept for comparison and the run starts afresh.
Rerun ==
    /\ pc = "done"
    /\ ~first_run.saved
    /\ first_run' = [saved |-> TRUE, entries |-> pf.entries, exits |-> pf.exits,
                     short_entries |-> pf.short_entries, short_exits |-> pf.short_exits]
    /\ \E m \in DOMAIN df_1m : \E v \in Shapes \ {df_1m[m]} :
           /\ df_1m' = [df_1m EXCEPT ![m] = v]
           /\ changed' = m
    /\ job_status' = "pending"
    /\ job_progress' = 0
    /\ result_json' = <<>>
    /\ progress_log' = <<>>
    /\ pc' = "pending"
    /\ df_tf' = <<>> /\ df_mag' = <<>>
    /\ bar_idx' = 0 /\ pos' = 0 /\ pos_start' = 0 /\ pos_end' = 0
    /\ in_long' = FALSE /\ in_short' = FALSE
    /\ long_entries_mag' = {} /\ long_exits_mag' = {}
    /\ short_entries_mag' = {} /\ short_exits_mag' = {}
    /\ forming' = NoForming
    /\ evaluated' = {}
    /\ pf' = NoPortfolio
    /\ params' = NoParams
    /\ UNCHANGED <<timeframe, magnify, warmup, length, strategy, cgVars, eqVars, sideVars>>

InitData ==
    /\ InitRun
    /\ first_run = NoRun
    /\ changed = -1
    /\ CgIdle
    /\ EqIdle
    /\ SideIdle
    /\ timeframe = "3m"
    /\ magnify = TRUE
    /\ warmup = 1
    /\ length = 2
    /\ strategy \in DataStrategies
    /\ df_1m \in FreeFrames

NextData ==
    \/ JobStart
    \/ RunPrepare
    \/ BarStart
    \/ SubBarData
    \/ LoopEnd
    \/ RunFinish
    \/ JobComplete
    \/ Rerun

SpecData == InitData /\ [][NextData]_vars

\* -------------------------------------------------- causality: claims

\* The sub-bar position whose row the second run changed.
ChangedPos == searchsorted(mag_index, (changed \div MagnifierMinutes(timeframe, 10))
                                      * MagnifierMinutes(timeframe, 10))

SameAt(q) ==
    /\ (q \in pf.entries) = (q \in first_run.entries)
    /\ (q \in pf.exits) = (q \in first_run.exits)
    /\ (q \in pf.short_entries) = (q \in first_run.short_entries)
    /\ (q \in pf.short_exits) = (q \in first_run.short_exits)

\* C4: two magnifier runs whose sub-bars at positions <= p (and so whose
\* chart bars before p's chart bar) are identical agree on every position
\* <= p of the four output vectors, whatever the data after p is.
C4_SignalCausality ==
    (first_run.saved /\ pf.called) =>
        \A q \in 0 .. (ChangedPos - 1) : SameAt(q)

\* C4 witness: the two runs agree on a mark before the changed sub-bar and
\* differ at or after it.
C4_Witness ==
    /\ first_run.saved /\ pf.called
    /\ \E q \in 0 .. (ChangedPos - 1) : q \in PfSignals
    /\ \E q \in ChangedPos .. (Cardinality(mag_index) - 1) : ~SameAt(q)

\* --------------------------------------- compute and compute_fast

\* Nodes of a condition, in postfix order: close > open, ta.crossover(close,
\* open), not x, nz(x), x and y, x or y.
Nodes == {"cmp", "cross", "not", "nz", "and", "or"}

Arity(node) ==
    CASE node \in {"cmp", "cross"} -> 0
      [] node \in {"not", "nz"}    -> 1
      [] node \in {"and", "or"}    -> 2

\* Operands left after nodes k.. of e, starting from d; -1 when a node lacks
\* an operand.
RECURSIVE DepthAfter(_, _, _)
DepthAfter(e, k, d) ==
    IF k > Len(e) THEN d
    ELSE IF d < Arity(e[k]) THEN -1
    ELSE DepthAfter(e, k + 1, d - Arity(e[k]) + 1)

\* The expressions the parser builds from these nodes.
Exprs ==
    {e \in UNION {[1 .. n -> Nodes] : n \in 1 .. MaxNodes} : DepthAfter(e, 1, 0) = 1}

\* _expr_to_python, node by node: and, or, not become &, |, ~; nz becomes
\* .fillna in _compute and ta.nz in _compute_fast.
ExprToPython(node, fast) ==
    CASE node = "cmp"   -> ">"
      [] node = "cross" -> "ta.crossover"
      [] node = "not"   -> "~"
      [] node = "and"   -> "&"
      [] node = "or"    -> "|"
      [] node = "nz"    -> IF fast THEN "ta.nz" ELSE ".fillna"

Lower(e, fast) == [k \in DOMAIN e |-> ExprToPython(e[k], fast)]

TypeError == [raised |-> TRUE, dtype |-> "", last |-> FALSE]

Item(dtype, last) == [raised |-> FALSE, dtype |-> dtype, last |-> last]

\* close > open on the last row.
Greater(w) == w[Len(w)].close > w[Len(w)].open

\* a[i] > b[i] and a[i-1] <= b[i-1] on the last row, a = close, b = open.
Crossed(w) ==
    /\ w[Len(w)].close > w[Len(w)].open
    /\ w[Len(w) - 1].close <= w[Len(w) - 1].open

\* The dtype of what crossover returns: ta (pandas) a bool Series, ta_fast
\* (numpy) a float64 array of 0.0 / 1.0.
CrossoverDtype(ns) == IF ns = "pandas" THEN "bool" ELSE "float64"

\* One operation of the emitted source on operands l, r (r unused by unary
\* ones), in the namespace the source was exec'd in.  numpy's bitwise_and,
\* bitwise_or and invert take no float64 operand.
Apply(tok, l, r, ns, w) ==
    CASE tok = ">"            -> Item("bool", Greater(w))
      [] tok = "ta.crossover" -> Item(CrossoverDtype(ns), Crossed(w))
      [] tok = "~"            ->
           IF l.dtype = "float64" THEN TypeError ELSE Item("bool", ~l.last)
      [] tok = "&"            ->
           IF l.dtype = "float64" \/ r.dtype = "float64" THEN TypeError
           ELSE Item("bool", l.last /\ r.last)
      [] tok = "|"            ->
           IF l.dtype = "float64" \/ r.dtype = "float64" THEN TypeError
           ELSE Item("bool", l.last \/ r.last)
      [] tok = ".fillna"      -> IF ns = "pandas" THEN l ELSE TypeError
      [] tok = "ta.nz"        -> l

PyArity(tok) ==
    CASE tok \in {">", "ta.crossover"}    -> 0
      [] tok \in {"~", ".fillna", "ta.nz"} -> 1
      [] tok \in {"&", "|"}               -> 2

\* The emitted expression evaluated from token k on, operands on a stack.
RECURSIVE Exec(_, _, _, _, _)
Exec(src, k, stack, ns, w) ==
    IF k > Len(src) THEN stack[Len(stack)]
    ELSE LET n    == PyArity(src[k])
             m    == Len(stack)
             l    == IF n = 0 THEN TypeError ELSE stack[m - n + 1]
             r    == IF n = 2 THEN stack[m] ELSE TypeError
             out  == Apply(src[k], l, r, ns, w)
         IN IF out.raised THEN TypeError
            ELSE Exec(src, k + 1, SubSeq(stack, 1, m - n) \o <<out>>, ns, w)

\* The last row of cond.fillna(False), or the exception compute raised.
SignalReturn(item) ==
    IF item.raised THEN [raised |-> TRUE, value |-> "error"]
    ELSE [raised |-> FALSE, value |-> IF item.last THEN "true" ELSE "false"]

\* bool(cond[-1]) if not np.isnan(cond[-1]) else False, or the exception.
SignalReturnFast(item) ==
    IF item.raised THEN [raised |-> TRUE, value |-> "error"]
    ELSE [raised |-> FALSE, value |-> IF item.last THEN "true" ELSE "false"]

othersEq == <<jobVars, runCore, warmup, cgVars, loopVars, outVars, pc, df_tf, df_mag, pf,
              sideVars>>

\* _emit_compute lowers the condition.
EmitCompute ==
    /\ cond # <<>>
    /\ python_src = <<>>
    /\ python_src' = Lower(cond, FALSE)
    /\ UNCHANGED <<cond, window, python_fast_src, batch_out, fast_out, othersEq>>

\* _emit_compute_fast lowers it again with _fast_mode set.
EmitFast ==
    /\ python_src # <<>>
    /\ python_fast_src = <<>>
    /\ python_fast_src' = Lower(cond, TRUE)
    /\ UNCHANGED <<cond, window, python_src, batch_out, fast_out, othersEq>>

\* strategy.compute(window, params)
CallCompute ==
    /\ python_src # <<>>
    /\ batch_out = NotRun
    /\ batch_out' = SignalReturn(Exec(python_src, 1, <<>>, "pandas", window))
    /\ UNCHANGED <<cond, window, python_src, python_fast_src, fast_out, othersEq>>

\* strategy.compute_fast(open, high, low, close, volume, params)
CallComputeFast ==
    /\ python_fast_src # <<>>
    /\ fast_out = NotRun
    /\ fast_out' = SignalReturnFast(Exec(python_fast_src, 1, <<>>, "numpy", window))
    /\ UNCHANGED <<cond, window, python_src, python_fast_src, batch_out, othersEq>>

InitEquiv ==
    /\ InitRun
    /\ SideIdle
    /\ first_run = NoRun
    /\ changed = -1
    /\ CgIdle
    /\ timeframe = "1m"
    /\ magnify = FALSE
    /\ length = 2
    /\ strategy = "any"
    /\ df_1m = FixedFrame("1m", {})
    /\ warmup = 50
    /\ cond \in Exprs
    /\ window \in [1 .. 2 -> Shapes]
    /\ python_src = <<>>
    /\ python_fast_src = <<>>
    /\ batch_out = NotRun
    /\ fast_out = NotRun

NextEquiv ==
    \/ EmitCompute
    \/ EmitFast
    \/ CallCompute
    \/ CallComputeFast

SpecEquiv == InitEquiv /\ [][NextEquiv]_vars

\* ------------------------------------------------ equivalence: claims

\* C3: for every compiled condition (and, or, not, nz, comparisons
\* included) and every window, compute_fast returns the booleans of
\* compute's last row, and neither raises where the other returns.
C3_FastMatchesBatch ==
    (batch_out # NotRun /\ fast_out # NotRun) => fast_out = batch_out

\* ------------------------------------------------- resolution picker

\* The timeframe literals and one that is no key of _TF_MINUTES.
TimeframeLiterals == {"1m", "3m", "5m", "15m", "30m", "1h", "4h", "1d", "2h"}

\* compute_magnifier_resolution(timeframe, target_ticks)
PickResolution ==
    /\ picked = ""
    /\ picked' = MinutesToTf(MagnifierMinutes(timeframe, target_ticks))
    /\ UNCHANGED <<target_ticks, cancel_token, strategy_inputs, param_overrides, tokVars,
                   parVars, sigVars, kernVars, jobVars, runCore, eqVars, warmup, cgVars, loopVars, outVars, pc, df_tf,
                   df_mag, pf>>

InitResolution ==
    /\ InitRun
    /\ first_run = NoRun
    /\ changed = -1
    /\ CgIdle
    /\ EqIdle
    /\ magnify = TRUE
    /\ length = 2
    /\ strategy = "any"
    /\ df_1m = FixedFrame("1m", {})
    /\ warmup = 50
    /\ timeframe \in TimeframeLiterals
    /\ target_ticks \in 1 .. MaxTarget
    /\ picked = ""
    /\ cancel_token = FALSE
    /\ ParamsIdle
    /\ TokIdle
    /\ ParIdle
    /\ SigIdle
    /\ KernIdle

NextResolution ==
    \/ PickResolution

SpecResolution == InitResolution /\ [][NextResolution]_vars

\* ----------------------------------------- resolution picker: claims

Picked == picked # ""

\* C11 as stated: with the default target of 10 the picker answers '5m' for
\* 1h, '15m' for 4h and '1m' for 1m.
C11_DefaultResolutions ==
    (Picked /\ target_ticks = 10) =>
        /\ timeframe = "1h" => picked = "5m"
        /\ timeframe = "4h" => picked = "15m"
        /\ timeframe = "1m" => picked = "1m"

\* C11 amended: with the default target of 10 the picker answers '5m' for
\* 1h (12 sub-bars), '30m' for 4h (8 sub-bars) and '1m' for 1m.
C11_DefaultResolutionsClosest ==
    (Picked /\ target_ticks = 10) =>
        /\ timeframe = "1h" => picked = "5m" /\ 60 \div 5 = 12
        /\ timeframe = "4h" => picked = "30m" /\ 240 \div 30 = 8
        /\ timeframe = "1m" => picked = "1m"

\* C11 witness: the picker has answered for the 4h chart at target 10.
C11_Witness == Picked /\ target_ticks = 10 /\ timeframe = "4h" /\ picked = "30m"

\* Candidate r qualifies for chart minutes M under the ceiling of target t.
Qualifies(r, M, t) == r < M /\ M % r = 0 /\ M \div r <= (16 * t) \div 10

Candidates == {1, 3, 5, 15, 30, 60, 240}

\* C12: the picker answers a resolution of {1,3,5,15,30,60,240} minutes;
\* unless it is the 1-minute fallback taken because no candidate qualified,
\* it divides M, is below M and gives at most floor(1.6 * target) sub-bars;
\* for M <= 1 or an unknown timeframe it answers '1m'.
C12_ResolutionIsQualifiedDivisor ==
    Picked =>
        LET M == TF_MINUTES(timeframe)
            r == TF_MINUTES(picked)
        IN /\ r \in Candidates
           /\ M <= 1 => picked = "1m"
           /\ (M > 1 /\ ~(r = 1 /\ \A c \in Candidates : ~Qualifies(c, M, target_ticks)))
                 => Qualifies(r, M, target_ticks)

\* C12 witness: the 1d chart answered with 4h, 1m itself not qualifying.
C12_Witness ==
    /\ Picked
    /\ timeframe = "1d"
    /\ picked = "4h"
    /\ ~Qualifies(1, 1440, target_ticks)

\* ----------------------------------------------------- progress: claims

Last(q) == q[Len(q)]

NonDecreasing(q) == \A i \in DOMAIN q : \A j \in DOMAIN q : i <= j => q[i] <= q[j]

\* C13: over a successful run in either mode, short feeds included, the
\* percents handed to the progress callback never decrease, are integers of
\* 0..100 and end with 100; the job row's progress field goes the same way
\* from 0 at the start to 100 at completion.
C13_ProgressMonotone ==
    /\ NonDecreasing(progress_log)
    /\ \A i \in DOMAIN progress_log : progress_log[i] \in 0 .. 100
    /\ job_progress = IF progress_log = <<>> THEN 0 ELSE Last(progress_log)
    /\ job_status = "completed" => progress_log # <<>> /\ Last(progress_log) = 100

\* C13 witness: a completed magnifier run that reported from inside its loop.
C13_Witness ==
    /\ job_status = "completed"
    /\ Mode = "magnifier"
    /\ \E i \in DOMAIN progress_log : 20 < progress_log[i] /\ progress_log[i] < 88

\* --------------------------------------------------------- cancellation

\* The caller sets the cancellation token while the job runs and the
\* portfolio simulator has not been called.
SetCancel ==
    /\ job_status = "running"
    /\ pc \in {"run", "bar", "sub"}
    /\ ~cancel_token
    /\ cancel_token' = TRUE
    /\ UNCHANGED <<pickVars, strategy_inputs, param_overrides, tokVars, parVars, sigVars, kernVars,
                   jobVars, runCore,
                   eqVars, warmup, cgVars, loopVars, outVars, pc, df_tf, df_mag, pf>>

NextCancel ==
    \/ JobStart
    \/ RunPrepare
    \/ RunStandard
    \/ BarStart
    \/ SubBarAny
    \/ LoopEnd
    \/ RunFinish
    \/ JobComplete
    \/ JobFail
    \/ SetCancel

SpecCancel == Init /\ [][NextCancel]_vars

\* C14: once the cancellation token is set during a run, the engine sees it
\* at the next progress report and returns Cancelled: the portfolio simulator
\* is never called and the run does not complete.  (Every call of the
\* simulator comes after a progress report of the same handler.)
C14_CancelStopsRun ==
    cancel_token => ~pf.called /\ job_status # "completed"

\* --------------------------------------------------- parameter overrides

\* IntInput / FloatInput / BoolInput of name len, with or without bounds.
InputParams ==
    {[kind |-> k, default |-> 3, has_minval |-> hmin, minval |-> 2,
      has_maxval |-> hmax, maxval |-> 4] :
        k \in {"int", "float", "bool"}, hmin \in BOOLEAN, hmax \in BOOLEAN}

\* Override maps: len absent or 1..5, the unknown name foo absent or 3.
Overrides ==
    {[n \in {} |-> 0], [n \in {"foo"} |-> 3]}
    \cup {[n \in {"len"} |-> v] : v \in 1 .. 5}
    \cup {[n \in {"len", "foo"} |-> IF n = "len" THEN v ELSE 3] : v \in 1 .. 5}

\* Jobs over a strategy with the input len: a 3m magnifier run whose compute
\* raises at every sub-bar.
InitParams ==
    /\ InitRun
    /\ first_run = NoRun
    /\ changed = -1
    /\ CgIdle
    /\ EqIdle
    /\ PickIdle
    /\ cancel_token = FALSE
    /\ TokIdle
    /\ ParIdle
    /\ SigIdle
    /\ KernIdle
    /\ timeframe = "3m"
    /\ magnify = TRUE
    /\ warmup = 1
    /\ length = 0
    /\ strategy = "any"
    /\ df_1m = FixedFrame("3m", {})
    /\ strategy_inputs \in {[n \in {"len"} |-> i] : i \in InputParams}
    /\ param_overrides \in Overrides

NextParams ==
    \/ JobStart
    \/ RunPrepare
    \/ BarStart
    \/ SubBarAny
    \/ LoopEnd
    \/ RunFinish
    \/ JobComplete
    \/ JobFail

SpecParams == InitParams /\ [][NextParams]_vars

\* ------------------------------------------- parameter overrides: claims

Len_ == strategy_inputs["len"]

Bounded == Len_.kind \in {"int", "float"}

Overridden == "len" \in DOMAIN param_overrides

OutOfRange ==
    /\ Bounded /\ Overridden
    /\ \/ Len_.has_minval /\ param_overrides["len"] < Len_.minval
       \/ Len_.has_maxval /\ param_overrides["len"] > Len_.maxval

OnBound ==
    /\ Bounded /\ Overridden
    /\ \/ Len_.has_minval /\ param_overrides["len"] = Len_.minval
       \/ Len_.has_maxval /\ param_overrides["len"] = Len_.maxval

PastResolve == pc \notin {"pending", "run"}

\* C15: with an override of an int/float input below minval or above maxval
\* the run fails before it loads data, reports progress or calls the
\* simulator; an override equal to a bound is accepted; the resolved map has
\* exactly the strategy's input names as keys, unknown overrides dropped.
C15_OverrideBounds ==
    PastResolve =>
        /\ OutOfRange =>
              /\ pc \in {"raised", "done"} /\ job_status # "completed"
              /\ df_tf = <<>> /\ df_mag = <<>>
              /\ ~pf.called
              /\ \A i \in DOMAIN progress_log : progress_log[i] < 10
        /\ (OnBound /\ ~OutOfRange) =>
              /\ pc # "raised" /\ job_status # "failed"
              /\ params["len"] = param_overrides["len"]
        /\ pc # "raised" /\ job_status # "failed" => DOMAIN params = DOMAIN strategy_inputs

\* C15 witness: an override equal to minval went through to a completed run,
\* an unknown override beside it.
C15_Witness ==
    /\ job_status = "completed"
    /\ Bounded /\ Len_.has_minval /\ Len_.has_maxval
    /\ Overridden /\ param_overrides["len"] = Len_.minval
    /\ "foo" \in DOMAIN param_overrides
    /\ DOMAIN params = {"len"}

\* ------------------------------------------------------------ tokenizer

\* A line is the sequence of its characters.
Quote     == "\""
Backslash == "\\"
Digits    == {"0", "1", "2", "3", "4", "5", "6", "7", "8", "9"}
Letters   == {"a", "b", "c", "d", "e", "f", "g", "i", "l", "n", "o", "r", "s", "t",
              "p", "u", "x", "y"}
KEYWORDS  ==
    {<<"i", "f">>, <<"a", "n", "d">>, <<"o", "r">>, <<"n", "o", "t">>,
     <<"t", "r", "u", "e">>, <<"f", "a", "l", "s", "e">>, <<"n", "a">>,
     <<"s", "t", "r", "a", "t", "e", "g", "y">>}
TWO_CHAR_OPS    == {<<">", "=">>, <<"<", "=">>, <<"=", "=">>, <<"!", "=">>}
SINGLE_CHAR_OPS == {"+", "-", "*", "/", "%", ">", "<"}

\* line.rstrip(), line.lstrip(" "), line.strip() over the blanks of the model.
RECURSIVE RStrip(_)
RStrip(l) == IF l # <<>> /\ l[Len(l)] = " " THEN RStrip(SubSeq(l, 1, Len(l) - 1)) ELSE l

RECURSIVE LStrip(_)
LStrip(l) == IF l # <<>> /\ l[1] = " " THEN LStrip(Tail(l)) ELSE l

Strip(l) == LStrip(RStrip(l))

\* _strip_comment from character k on.
RECURSIVE StripComment(_, _, _)
StripComment(l, k, in_string) ==
    IF k > Len(l) THEN l
    ELSE IF l[k] = Quote /\ (k = 1 \/ l[k - 1] # Backslash)
         THEN StripComment(l, k + 1, ~in_string)
    ELSE IF l[k] = "/" /\ ~in_string /\ k + 1 <= Len(l) /\ l[k + 1] = "/"
         THEN SubSeq(l, 1, k - 1)
    ELSE StripComment(l, k + 1, in_string)

\* The paren / bracket depth after the characters k.. of a line.
RECURSIVE Depths(_, _, _, _)
Depths(l, k, pd, bd) ==
    IF k > Len(l) THEN <<pd, bd>>
    ELSE CASE l[k] = "(" -> Depths(l, k + 1, pd + 1, bd)
           [] l[k] = ")" -> Depths(l, k + 1, Max2(0, pd - 1), bd)
           [] l[k] = "[" -> Depths(l, k + 1, pd, bd + 1)
           [] l[k] = "]" -> Depths(l, k + 1, pd, Max2(0, bd - 1))
           [] OTHER      -> Depths(l, k + 1, pd, bd)

\* _preprocess's loop from raw line k on.
RECURSIVE PreLoop(_, _, _, _, _, _, _)
PreLoop(raw, k, pd, bd, accum, accum_start, processed) ==
    IF k > Len(raw)
    THEN IF accum # <<>>
           THEN Append(processed, [no |-> accum_start, content |-> accum])
           ELSE processed
    ELSE LET l    == StripComment(raw[k], 1, FALSE)
             cont == pd > 0 \/ bd > 0
             d    == Depths(l, 1, pd, bd)
         IN PreLoop(raw, k + 1, d[1], d[2],
                    IF cont THEN accum \o <<" ">> \o Strip(l) ELSE RStrip(l),
                    IF cont THEN accum_start ELSE k,
                    IF ~cont /\ accum # <<>>
                      THEN Append(processed, [no |-> accum_start, content |-> accum])
                      ELSE processed)

preprocess(raw) == PreLoop(raw, 1, 0, 0, <<>>, 0, <<>>)

Token(type, value, line) == [type |-> type, value |-> value, line |-> line]

\* The indent stack after the DEDENT loop for a line of that indent.
RECURSIVE PopTo(_, _)
PopTo(stack, indent) ==
    IF indent < stack[Len(stack)] THEN PopTo(SubSeq(stack, 1, Len(stack) - 1), indent)
    ELSE stack

\* n tokens of one type on one line.
Repeat(type, line, n) == [k \in 1 .. n |-> Token(type, <<>>, line)]

\* The end of a string literal opened before j: past the closing quote.
RECURSIVE StringEnd(_, _)
StringEnd(t, j) ==
    IF j <= Len(t) /\ t[j] # Quote
    THEN StringEnd(t, IF t[j] = Backslash THEN j + 2 ELSE j + 1)
    ELSE j + 1

\* The end of a number that starts at j.
RECURSIVE NumberEnd(_, _, _)
NumberEnd(t, j, has_dot) ==
    IF j <= Len(t) /\ (t[j] \in Digits \/ t[j] = ".")
    THEN IF t[j] = "." /\ has_dot THEN j
         ELSE NumberEnd(t, j + 1, has_dot \/ t[j] = ".")
    ELSE j

\* The end of an identifier that starts at j.
RECURSIVE WordEnd(_, _)
WordEnd(t, j) ==
    IF j <= Len(t) /\ (t[j] \in Letters \cup Digits \/ t[j] = "_") THEN WordEnd(t, j + 1)
    ELSE j

PUNCTUATION == {"(", ")", "[", "]", ",", "."}

PunctType(ch) ==
    CASE ch = "(" -> "LPAREN" [] ch = ")" -> "RPAREN" [] ch = "[" -> "LBRACKET"
      [] ch = "]" -> "RBRACKET" [] ch = "," -> "COMMA" [] ch = "." -> "DOT"

\* An unknown character skipped together with its successor.
Skip_Two(k) == k + 2

\* Unknown character: i += 1
Skip(k) == k + 1

\* One pass of _tokenize_line's while loop at position k of t: the token it
\* appends, if any, and the next position.
ScanAt(t, k, line_no) ==
    LET ch == t[k]
        n  == Len(t)
    IN IF ch \in {" ", "\t"} THEN [emit |-> <<>>, next |-> k + 1]
       ELSE IF ch = Quote
         THEN LET j == StringEnd(t, k + 1)
              IN [emit |-> <<Token("STRING", SubSeq(t, k + 1, Min2(j - 2, n)), line_no)>>,
                  next |-> j]
       ELSE IF ch \in Digits \/ (ch = "." /\ k + 1 <= n /\ t[k + 1] \in Digits)
         THEN LET j == NumberEnd(t, k, FALSE)
              IN [emit |-> <<Token("NUMBER", SubSeq(t, k, j - 1), line_no)>>, next |-> j]
       ELSE IF k + 1 <= n /\ <<ch, t[k + 1]>> \in TWO_CHAR_OPS
         THEN [emit |-> <<Token("OP", <<ch, t[k + 1]>>, line_no)>>, next |-> k + 2]
       ELSE IF ch \in SINGLE_CHAR_OPS
         THEN [emit |-> <<Token("OP", <<ch>>, line_no)>>, next |-> k + 1]
       ELSE IF ch = "="
         THEN [emit |-> <<Token("ASSIGN", <<ch>>, line_no)>>, next |-> k + 1]
       ELSE IF ch \in PUNCTUATION
         THEN [emit |-> <<Token(PunctType(ch), <<ch>>, line_no)>>, next |-> k + 1]
       ELSE IF ch \in Letters \/ ch = "_"
         THEN LET j    == WordEnd(t, k)
                  word == SubSeq(t, k, j - 1)
              IN [emit |-> <<Token(IF word \in KEYWORDS THEN "KEYWORD" ELSE "IDENT",
                                   word, line_no)>>,
                  next |-> j]
       ELSE [emit |-> <<>>, next |-> Skip(k)]

\* ---------------------------------------------------- Tokenizer.tokenize

\* Lines that differ in indentation and in open parentheses: empty, a,
\* a indented by one and by two, (a and ).
IndentLines ==
    {<<>>,
     <<"a">>,
     <<" ", "a">>,
     <<" ", " ", "a">>,
     <<"(", "a">>,
     <<")">>}

\* Lines that differ in their characters: unterminated strings, a trailing
\* backslash, malformed numbers, stray brackets, characters of no token,
\* comments, a comment behind a string that ends in an escaped backslash and
\* a keyword.
LexLines ==
    {<<"\"", "a", "b">>,
     <<"\"", "a", "\\">>,
     <<"1", ".", "2", ".", "3">>,
     <<"1", ".", ".", "a">>,
     <<"(", "(">>,
     <<"]">>,
     <<"@", "a">>,
     <<"a", "!", "b">>,
     <<"a", "!", "=", "1">>,
     <<" ", "a", "/", "/", "b">>,
     <<"\"", "/", "/", "\"", "a">>,
     <<"\"", "\\", "\\", "\"", "/", "/", "a">>,
     <<"i", "f", " ", "a", ".", "b">>}

Sources ==
    UNION {[1 .. n -> IndentLines] : n \in 1 .. MaxLines}
    \cup UNION {[1 .. n -> LexLines] : n \in 1 .. MaxLexLines}

\* The line number of the closing DEDENT tokens and of EOF.
ClosingLine == 0

othersTok == <<source, parVars, sigVars, kernVars, pickVars, cancel_token, strategy_inputs, param_overrides, jobVars,
               runCore, eqVars, warmup, cgVars, loopVars, outVars, pc, df_tf, df_mag, pf>>

\* tokenize down to its for loop.
TokenizeStart ==
    /\ tk_pc = "start"
    /\ lines' = preprocess(source)
    /\ tokens' = <<>>
    /\ indent_stack' = <<0>>
    /\ line_k' = 0
    /\ tk_pc' = "lines"
    /\ UNCHANGED <<text, scan_i, othersTok>>

\* The for loop's body down to the call of _tokenize_line: a blank line is
\* passed over, any other line gets its INDENT / DEDENT tokens.
NextLine ==
    /\ tk_pc = "lines"
    /\ line_k < Len(lines)
    /\ line_k' = line_k + 1
    /\ LET line     == lines[line_k + 1].content
           line_no  == lines[line_k + 1].no
           stripped == LStrip(line)
           indent   == Len(line) - Len(stripped)
           deeper   == indent > indent_stack[Len(indent_stack)]
           pushed   == IF deeper THEN Append(indent_stack, indent) ELSE indent_stack
           popped   == PopTo(pushed, indent)
       IN IF Strip(line) = <<>>
            THEN UNCHANGED <<tokens, indent_stack, text, scan_i, tk_pc>>
            ELSE /\ tokens' = tokens \o Repeat("INDENT", line_no, IF deeper THEN 1 ELSE 0)
                                     \o Repeat("DEDENT", line_no, Len(pushed) - Len(popped))
                 /\ indent_stack' = popped
                 /\ text' = stripped
                 /\ scan_i' = 1
                 /\ tk_pc' = "scan"
    /\ UNCHANGED <<lines, othersTok>>

\* One pass of _tokenize_line's while loop.
ScanStep ==
    /\ tk_pc = "scan"
    /\ scan_i <= Len(text)
    /\ LET r == ScanAt(text, scan_i, lines[line_k].no)
       IN /\ tokens' = tokens \o r.emit
          /\ scan_i' = r.next
    /\ UNCHANGED <<lines, indent_stack, line_k, text, tk_pc, othersTok>>

\* _tokenize_line is through: the line's NEWLINE token.
LineEnd ==
    /\ tk_pc = "scan"
    /\ scan_i > Len(text)
    /\ tokens' = Append(tokens, Token("NEWLINE", <<Backslash, "n">>, lines[line_k].no))
    /\ tk_pc' = "lines"
    /\ UNCHANGED <<lines, indent_stack, line_k, text, scan_i, othersTok>>

\* A closing loop that also pops the base of the stack.
Remaining_All(stack) == Len(stack)

\* How often the closing loop runs: while len(indent_stack) > 1.
Remaining(stack) == Len(stack) - 1

\* After the for loop: the remaining indents are closed, then EOF.
TokenizeClose ==
    /\ tk_pc = "lines"
    /\ line_k = Len(lines)
    /\ tokens' = tokens \o Repeat("DEDENT", ClosingLine, Remaining(indent_stack))
                        \o <<Token("EOF", <<>>, ClosingLine)>>
    /\ indent_stack' = <<0>>
    /\ tk_pc' = "done"
    /\ UNCHANGED <<lines, line_k, text, scan_i, othersTok>>

InitTokens ==
    /\ InitRun
    /\ first_run = NoRun
    /\ changed = -1
    /\ CgIdle
    /\ EqIdle
    /\ PickIdle
    /\ cancel_token = FALSE
    /\ ParamsIdle
    /\ ParIdle
    /\ SigIdle
    /\ KernIdle
    /\ timeframe = "1m"
    /\ magnify = FALSE
    /\ warmup = 50
    /\ length = 2
    /\ strategy = "any"
    /\ df_1m = FixedFrame("1m", {})
    /\ source \in Sources
    /\ lines = <<>>
    /\ tokens = <<>>
    /\ indent_stack = <<0>>
    /\ line_k = 0
    /\ text = <<>>
    /\ scan_i = 1
    /\ tk_pc = "start"

NextTokens ==
    \/ TokenizeStart
    \/ NextLine
    \/ ScanStep
    \/ LineEnd
    \/ TokenizeClose

SpecTokens == InitTokens /\ [][NextTokens]_vars

\* ---------------------------------------------------- tokenizer: claims

Count(type, n) == Cardinality({k \in 1 .. n : tokens[k].type = type})

Tokenized == tk_pc = "done" /\ source # <<>>

\* C16: the stream tokenize returns ends with EOF and holds no other EOF,
\* holds as many DEDENT as INDENT tokens, and no prefix of it holds more
\* DEDENTs than INDENTs.
C16_IndentsBalanced ==
    Tokenized =>
        /\ tokens # <<>> /\ tokens[Len(tokens)].type = "EOF"
        /\ Count("EOF", Len(tokens)) = 1
        /\ Count("DEDENT", Len(tokens)) = Count("INDENT", Len(tokens))
        /\ \A n \in 0 .. Len(tokens) : Count("DEDENT", n) <= Count("INDENT", n)

\* C16 witness: a stream with two INDENTs, one closed by a later line and one
\* by the end of the source.
C16_Witness ==
    /\ Tokenized
    /\ Count("INDENT", Len(tokens)) = 2
    /\ \E k \in DOMAIN tokens : tokens[k].type = "DEDENT" /\ tokens[k].line > 0
    /\ \E k \in DOMAIN tokens : tokens[k].type = "DEDENT" /\ tokens[k].line = 0

\* C17: every token of the returned stream, the closing DEDENTs and EOF
\* included, carries a line between 1 and the number of source lines.
C17_LinesPointIntoSource ==
    Tokenized => \A k \in DOMAIN tokens : tokens[k].line \in 1 .. Len(source)

\* A character at which no branch of _tokenize_line's loop starts a token.
StartsNoToken(t, k) ==
    /\ t[k] \notin {" ", "\t", Quote, "=", "_"}
    /\ t[k] \notin Digits \cup Letters \cup SINGLE_CHAR_OPS \cup PUNCTUATION
    /\ ~(k + 1 <= Len(t) /\ <<t[k], t[k + 1]>> \in TWO_CHAR_OPS)

Rank(p) == CASE p = "start" -> 0 [] p = "scan" -> 1 [] p = "lines" -> 2 [] p = "done" -> 3

\* C18: tokenize runs to its end on every source, unterminated strings, a
\* trailing backslash in a string, malformed numbers and stray brackets
\* included: each step moves on (to a later line, a later phase of the line
\* or a later character) inside the source's bounds, and a character that
\* starts no token adds no token and moves the scan by one.
C18_ScanMovesOn ==
    /\ [](/\ line_k <= Len(lines) /\ Len(lines) <= Len(source)
          /\ (tk_pc = "scan" => scan_i \in 1 .. (Len(text) + 3)))
    /\ [][/\ \/ line_k' > line_k
             \/ line_k' = line_k /\ Rank(tk_pc') > Rank(tk_pc)
             \/ line_k' = line_k /\ tk_pc' = tk_pc /\ tk_pc = "scan" /\ scan_i' > scan_i
          /\ (ScanStep /\ StartsNoToken(text, scan_i)) =>
                 tokens' = tokens /\ scan_i' = scan_i + 1]_vars

\* C18 witness: a finished stream for a source with a string that ends in a
\* backslash and a line that opens with a character of no token.
C18_Witness ==
    /\ Tokenized
    /\ \E k \in DOMAIN source : source[k] = <<Quote, "a", Backslash>>
    /\ \E k \in DOMAIN source : source[k] = <<"@", "a">>
    /\ \E k \in DOMAIN tokens : tokens[k].type = "STRING"
    /\ Count("IDENT", Len(tokens)) = 1


\* --------------------------------------------------------------- parser

\* Words of the language, as the character sequences of their tokens.
W_or       == <<"o", "r">>
W_and      == <<"a", "n", "d">>
W_not      == <<"n", "o", "t">>
W_true     == <<"t", "r", "u", "e">>
W_false    == <<"f", "a", "l", "s", "e">>
W_na       == <<"n", "a">>
W_if       == <<"i", "f">>
W_strategy == <<"s", "t", "r", "a", "t", "e", "g", "y">>
W_input    == <<"i", "n", "p", "u", "t">>

\* An Optional[str] that is None.
None == <<"None">>

\* _cur and _peek: the token at position p, EOF past the end of the list.
Cur(toks, p) == IF p <= Len(toks) THEN toks[p] ELSE Token("EOF", <<>>, 0)

\* tok.type == ttype and tok.value == value
Is(tok, type, value) == tok.type = type /\ tok.value = value

\* What a parsing method gives: a node and the position after it, or the
\* exception it raised.
Ok(node, p)  == [ok |-> TRUE, err |-> "", node |-> node, pos |-> p]
Fail(exc, p) == [ok |-> FALSE, err |-> exc, node |-> <<>>, pos |-> p]

\* The value of x under the name the operator F gives it: a local variable.
With(x, F(_)) == CHOOSE v \in {F(r) : r \in {x}} : TRUE

\* _expect(ttype) at p
Expect(toks, p, type) ==
    IF Cur(toks, p).type = type THEN Ok(Cur(toks, p).value, p + 1)
    ELSE Fail("ParseError", p)

\* _skip_newlines
RECURSIVE skip_newlines(_, _)
skip_newlines(toks, p) ==
    IF Cur(toks, p).type = "NEWLINE" THEN skip_newlines(toks, p + 1) ELSE p

\* The expression nodes of ast_nodes.py. A Literal keeps the text of its
\* token next to the Python type the parser converts it to.
Literal(kind, value)          == [node |-> "Literal", kind |-> kind, value |-> value]
Ident(name)                   == [node |-> "Ident", name |-> name]
BinOp(left, op, right)        == [node |-> "BinOp", left |-> left, op |-> op, right |-> right]
UnaryOp(op, operand)          == [node |-> "UnaryOp", op |-> op, operand |-> operand]
Subscript(expr, index)        == [node |-> "Subscript", expr |-> expr, index |-> index]
PropertyAccess(ns, name)      == [node |-> "PropertyAccess", namespace |-> ns, name |-> name]
FuncCall(ns, name, args, kws) ==
    [node |-> "FuncCall", namespace |-> ns, name |-> name, args |-> args, kwargs |-> kws]

\* kwargs[key] = val on a dict kept as its items in insertion order.
DictSet(items, key, val) ==
    IF \E k \in DOMAIN items : items[k].key = key
    THEN [k \in DOMAIN items |->
             IF items[k].key = key THEN [key |-> key, val |-> val] ELSE items[k]]
    ELSE Append(items, [key |-> key, val |-> val])

\* "." in tok.value
HasDot(value) == \E k \in DOMAIN value : value[k] = "."

COMP_OPS == {<<">">>, <<"<">>, <<">", "=">>, <<"<", "=">>, <<"=", "=">>, <<"!", "=">>}

ADD_OPS   == {<<"+">>, <<"-">>}

\* Multiplicative operators that take the plus sign along.
MUL_OPS_Plus == {<<"*">>, <<"/">>, <<"%">>, <<"+">>}

MUL_OPS   == {<<"*">>, <<"/">>, <<"%">>}
UNARY_OPS == {<<"-">>, <<"+">>}

RECURSIVE parse_or(_, _), or_loop(_, _), parse_and(_, _), and_loop(_, _),
          parse_not(_, _), parse_comparison(_, _), parse_add_sub(_, _),
          add_sub_loop(_, _), parse_mul_div(_, _), mul_div_loop(_, _),
          parse_unary(_, _), parse_postfix(_, _), parse_primary(_, _),
          parse_func_call(_, _, _, _), parse_call_args(_, _, _, _), parenthesized(_, _),
          call_args(_, _)

\* _parse_expr
parse_expr(toks, p) == parse_or(toks, p)

parse_or(toks, p) ==
    With(parse_and(toks, p), LAMBDA left : IF left.ok THEN or_loop(toks, left) ELSE left)

or_loop(toks, left) ==
    IF Is(Cur(toks, left.pos), "KEYWORD", W_or)
    THEN With(parse_and(toks, left.pos + 1),
              LAMBDA right :
                  IF right.ok
                  THEN With(Ok(BinOp(left.node, W_or, right.node), right.pos),
                            LAMBDA both : or_loop(toks, both))
                  ELSE right)
    ELSE left

parse_and(toks, p) ==
    With(parse_not(toks, p), LAMBDA left : IF left.ok THEN and_loop(toks, left) ELSE left)

and_loop(toks, left) ==
    IF Is(Cur(toks, left.pos), "KEYWORD", W_and)
    THEN With(parse_not(toks, left.pos + 1),
              LAMBDA right :
                  IF right.ok
                  THEN With(Ok(BinOp(left.node, W_and, right.node), right.pos),
                            LAMBDA both : and_loop(toks, both))
                  ELSE right)
    ELSE left

parse_not(toks, p) ==
    IF Is(Cur(toks, p), "KEYWORD", W_not)
    THEN With(parse_not(toks, p + 1),
              LAMBDA operand :
                  IF operand.ok THEN Ok(UnaryOp(W_not, operand.node), operand.pos)
                  ELSE operand)
    ELSE parse_comparison(toks, p)

parse_comparison(toks, p) ==
    With(parse_add_sub(toks, p),
         LAMBDA left :
             IF /\ left.ok
                /\ Cur(toks, left.pos).type = "OP"
                /\ Cur(toks, left.pos).value \in COMP_OPS
             THEN With(parse_add_sub(toks, left.pos + 1),
                       LAMBDA right :
                           IF right.ok
                           THEN Ok(BinOp(left.node, Cur(toks, left.pos).value, right.node),
                                   right.pos)
                           ELSE right)
             ELSE left)

parse_add_sub(toks, p) ==
    With(parse_mul_div(toks, p),
         LAMBDA left : IF left.ok THEN add_sub_loop(toks, left) ELSE left)

add_sub_loop(toks, left) ==
    IF Cur(toks, left.pos).type = "OP" /\ Cur(toks, left.pos).value \in ADD_OPS
    THEN With(parse_mul_div(toks, left.pos + 1),
              LAMBDA right :
                  IF right.ok
                  THEN With(Ok(BinOp(left.node, Cur(toks, left.pos).value, right.node),
                               right.pos),
                            LAMBDA both : add_sub_loop(toks, both))
                  ELSE right)
    ELSE left

parse_mul_div(toks, p) ==
    With(parse_unary(toks, p),
         LAMBDA left : IF left.ok THEN mul_div_loop(toks, left) ELSE left)

mul_div_loop(toks, left) ==
    IF Cur(toks, left.pos).type = "OP" /\ Cur(toks, left.pos).value \in MUL_OPS
    THEN With(parse_unary(toks, left.pos + 1),
              LAMBDA right :
                  IF right.ok
                  THEN With(Ok(BinOp(left.node, Cur(toks, left.pos).value, right.node),
                               right.pos),
                            LAMBDA both : mul_div_loop(toks, both))
                  ELSE right)
    ELSE left

parse_unary(toks, p) ==
    IF Cur(toks, p).type = "OP" /\ Cur(toks, p).value \in UNARY_OPS
    THEN With(parse_unary(toks, p + 1),
              LAMBDA operand :
                  IF ~operand.ok \/ Cur(toks, p).value = <<"+">> THEN operand
                  ELSE Ok(UnaryOp(Cur(toks, p).value, operand.node), operand.pos))
    ELSE parse_postfix(toks, p)

\* The primary, then an optional [index]: int() of an index written with a
\* dot raises ValueError.
parse_postfix(toks, p) ==
    With(parse_primary(toks, p),
         LAMBDA expr :
             IF expr.ok /\ Cur(toks, expr.pos).type = "LBRACKET"
             THEN IF Cur(toks, expr.pos + 1).type # "NUMBER"
                    THEN Fail("ParseError", expr.pos + 1)
                  ELSE IF HasDot(Cur(toks, expr.pos + 1).value)
                    THEN Fail("ValueError", expr.pos + 1)
                  ELSE IF Cur(toks, expr.pos + 2).type # "RBRACKET"
                    THEN Fail("ParseError", expr.pos + 2)
                  ELSE Ok(Subscript(expr.node, Cur(toks, expr.pos + 1).value), expr.pos + 3)
             ELSE expr)

\* The parenthesized expression of _parse_primary, after its (.
parenthesized(toks, p) ==
    With(parse_or(toks, p),
         LAMBDA expr :
             IF ~expr.ok THEN expr
             ELSE IF Cur(toks, expr.pos).type # "RPAREN" THEN Fail("ParseError", expr.pos)
             ELSE Ok(expr.node, expr.pos + 1))

parse_primary(toks, p) ==
    IF Cur(toks, p).type = "NUMBER"
      THEN Ok(Literal(IF HasDot(Cur(toks, p).value) THEN "float" ELSE "int",
                      Cur(toks, p).value), p + 1)
    ELSE IF Cur(toks, p).type = "STRING" THEN Ok(Literal("str", Cur(toks, p).value), p + 1)
    ELSE IF Cur(toks, p).type = "KEYWORD" /\ Cur(toks, p).value \in {W_true, W_false}
      THEN Ok(Literal("bool", Cur(toks, p).value), p + 1)
    ELSE IF Is(Cur(toks, p), "KEYWORD", W_na)
      THEN Ok(Literal("NoneType", Cur(toks, p).value), p + 1)
    ELSE IF Is(Cur(toks, p), "KEYWORD", W_strategy)
      THEN IF Cur(toks, p + 1).type = "DOT"
           THEN Ok(Ident(W_strategy \o <<".">> \o Cur(toks, p + 2).value), p + 3)
           ELSE Ok(Ident(W_strategy), p + 1)
    ELSE IF Cur(toks, p).type = "LPAREN" THEN parenthesized(toks, p + 1)
    ELSE IF Cur(toks, p).type = "IDENT"
      THEN IF Cur(toks, p + 1).type = "DOT"
           THEN IF Cur(toks, p + 2).type \notin {"IDENT", "KEYWORD"}
                  THEN Fail("ParseError", p + 2)
                ELSE IF Cur(toks, p + 3).type = "LPAREN"
                  THEN parse_func_call(toks, p + 3, Cur(toks, p).value,
                                       Cur(toks, p + 2).value)
                ELSE Ok(PropertyAccess(Cur(toks, p).value, Cur(toks, p + 2).value), p + 3)
           ELSE IF Cur(toks, p + 1).type = "LPAREN"
             THEN parse_func_call(toks, p + 1, None, Cur(toks, p).value)
           ELSE Ok(Ident(Cur(toks, p).value), p + 1)
    ELSE Fail("ParseError", p)

\* _parse_call_args: node is the pair of args and kwargs read so far.
parse_call_args(toks, p, args, kwargs) ==
    IF Cur(toks, p).type = "IDENT" /\ Cur(toks, p + 1).type = "ASSIGN"
    THEN With(parse_or(toks, p + 2),
              LAMBDA val :
                  IF ~val.ok THEN val
                  ELSE With(DictSet(kwargs, Cur(toks, p).value, val.node),
                            LAMBDA kws :
                                IF Cur(toks, val.pos).type = "COMMA"
                                THEN parse_call_args(toks, val.pos + 1, args, kws)
                                ELSE Ok([args |-> args, kwargs |-> kws], val.pos)))
    ELSE With(parse_or(toks, p),
              LAMBDA val :
                  IF ~val.ok THEN val
                  ELSE With(Append(args, val.node),
                            LAMBDA more :
                                IF Cur(toks, val.pos).type = "COMMA"
                                THEN parse_call_args(toks, val.pos + 1, more, kwargs)
                                ELSE Ok([args |-> more, kwargs |-> kwargs], val.pos)))

\* The arguments between ( and ), then the ).
call_args(toks, p) ==
    With(IF Cur(toks, p).type # "RPAREN" THEN parse_call_args(toks, p, <<>>, <<>>)
         ELSE Ok([args |-> <<>>, kwargs |-> <<>>], p),
         LAMBDA read :
             IF ~read.ok THEN read
             ELSE IF Cur(toks, read.pos).type # "RPAREN" THEN Fail("ParseError", read.pos)
             ELSE Ok(read.node, read.pos + 1))

parse_func_call(toks, p, namespace, func_name) ==
    IF Cur(toks, p).type # "LPAREN" THEN Fail("ParseError", p)
    ELSE With(call_args(toks, p + 1),
              LAMBDA read :
                  IF ~read.ok THEN read
                  ELSE Ok(FuncCall(namespace, func_name, read.node.args, read.node.kwargs),
                          read.pos))

\* ------------------------------------------------- parser: statements

\* The statement nodes of ast_nodes.py.
StrategyDecl(name, kwargs)    == [node |-> "StrategyDecl", name |-> name, kwargs |-> kwargs]
Assignment(targets, expr)     == [node |-> "Assignment", targets |-> targets, expr |-> expr]
StrategyAction(action, args, kwargs) ==
    [node |-> "StrategyAction", action |-> action, args |-> args, kwargs |-> kwargs]
IfBlock(condition_name, body) ==
    [node |-> "IfBlock", condition_name |-> condition_name, body |-> body]
InputDecl(var_name, input_type, default, title, kwargs) ==
    [node |-> "InputDecl", var_name |-> var_name, input_type |-> input_type,
     default |-> default, title |-> title, kwargs |-> kwargs]

\* A Python value read from a token: its type and the text it was made of.
Value(kind, txt) == [kind |-> kind, value |-> txt]

\* _skip_to_next_line
RECURSIVE skip_to_next_line(_, _)
skip_to_next_line(toks, p) ==
    IF Cur(toks, p).type \notin {"EOF", "NEWLINE"} THEN skip_to_next_line(toks, p + 1)
    ELSE skip_newlines(toks, p)

\* _parse_literal_value's dotted constant: while self._match(DOT) takes the
\* token after the dot, whatever it is.
RECURSIVE dotted(_, _, _)
dotted(toks, p, parts) ==
    IF Cur(toks, p).type = "DOT"
    THEN dotted(toks, p + 2, parts \o <<".">> \o Cur(toks, p + 1).value)
    ELSE Ok(Value("str", parts), p)

\* _parse_literal_value
parse_literal_value(toks, p) ==
    LET tok == Cur(toks, p)
    IN IF tok.type = "NUMBER"
         THEN Ok(Value(IF HasDot(tok.value) THEN "float" ELSE "int", tok.value), p + 1)
       ELSE IF tok.type = "STRING" THEN Ok(Value("str", tok.value), p + 1)
       ELSE IF tok.type = "KEYWORD" /\ tok.value \in {W_true, W_false}
         THEN Ok(Value("bool", tok.value), p + 1)
       ELSE IF tok.type \in {"IDENT", "KEYWORD"} THEN dotted(toks, p + 1, tok.value)
       ELSE Fail("ParseError", p)

\* The key = value loops of _parse_strategy_decl (strict: a comma that no
\* key follows ends the loop) and of _parse_input_decl (a value that no key
\* precedes is read and dropped).
RECURSIVE read_kwargs(_, _, _, _)
read_kwargs(toks, p, kwargs, strict) ==
    IF Cur(toks, p).type # "COMMA" THEN Ok(kwargs, p)
    ELSE IF /\ Cur(toks, p + 1).type \in {"IDENT", "KEYWORD"}
            /\ strict \/ Cur(toks, p + 2).type = "ASSIGN"
      THEN IF Cur(toks, p + 2).type # "ASSIGN" THEN Fail("ParseError", p + 2)
           ELSE With(parse_literal_value(toks, p + 3),
                     LAMBDA val :
                         IF ~val.ok THEN val
                         ELSE With(DictSet(kwargs, Cur(toks, p + 1).value, val.node),
                                   LAMBDA kws : read_kwargs(toks, val.pos, kws, strict)))
    ELSE IF strict THEN Ok(kwargs, p + 1)
    ELSE With(parse_literal_value(toks, p + 1),
              LAMBDA val : IF val.ok THEN read_kwargs(toks, val.pos, kwargs, strict) ELSE val)

\* _parse_strategy_decl at the keyword strategy
parse_strategy_decl(toks, p) ==
    IF Cur(toks, p + 1).type # "LPAREN" THEN Fail("ParseError", p + 1)
    ELSE IF Cur(toks, p + 2).type # "STRING" THEN Fail("ParseError", p + 2)
    ELSE With(read_kwargs(toks, p + 3, <<>>, TRUE),
              LAMBDA kws :
                  IF ~kws.ok THEN kws
                  ELSE IF Cur(toks, kws.pos).type # "RPAREN"
                    THEN Fail("ParseError", kws.pos)
                  ELSE Ok(StrategyDecl(Cur(toks, p + 2).value, kws.node),
                          skip_newlines(toks, kws.pos + 1)))

\* The title of _parse_input_decl, read after the default at p: the string
\* after the comma, the str() of another literal, or var_name; a key = value
\* after the comma is left where it stands, the comma taken.
read_title(toks, p, var_name) ==
    IF Cur(toks, p).type # "COMMA" THEN Ok(Value("str", var_name), p)
    ELSE IF Cur(toks, p + 1).type = "STRING"
      THEN Ok(Value("str", Cur(toks, p + 1).value), p + 2)
    ELSE IF Cur(toks, p + 1).type = "IDENT" /\ Cur(toks, p + 2).type = "ASSIGN"
      THEN Ok(Value("str", var_name), p + 1)
    ELSE With(parse_literal_value(toks, p + 1),
              LAMBDA val :
                  IF val.ok THEN Ok(Value("str", <<"str(">> \o val.node.value \o <<")">>),
                                    val.pos)
                  ELSE val)

\* _parse_input_decl past the default: title, kwargs and ).
input_tail(toks, var_name, input_type, default) ==
    With(read_title(toks, default.pos, var_name),
         LAMBDA title :
             IF ~title.ok THEN title
             ELSE With(read_kwargs(toks, title.pos, <<>>, FALSE),
                       LAMBDA kws :
                           IF ~kws.ok THEN kws
                           ELSE IF Cur(toks, kws.pos).type # "RPAREN"
                             THEN Fail("ParseError", kws.pos)
                           ELSE Ok(InputDecl(var_name, input_type, default.node,
                                             title.node, kws.node), kws.pos + 1)))

\* _parse_input_decl at the identifier input, a dot behind it
parse_input_decl(toks, p, var_name) ==
    IF Cur(toks, p + 2).type # "IDENT" THEN Fail("ParseError", p + 2)
    ELSE IF Cur(toks, p + 3).type # "LPAREN" THEN Fail("ParseError", p + 3)
    ELSE With(parse_literal_value(toks, p + 4),
              LAMBDA default :
                  IF ~default.ok THEN default
                  ELSE input_tail(toks, var_name, Cur(toks, p + 2).value, default))

\* _parse_tuple_targets after its first target
RECURSIVE more_targets(_, _, _)
more_targets(toks, p, targets) ==
    IF Cur(toks, p).type = "COMMA"
    THEN IF Cur(toks, p + 1).type = "IDENT"
         THEN more_targets(toks, p + 2, Append(targets, Cur(toks, p + 1).value))
         ELSE Fail("ParseError", p + 1)
    ELSE IF Cur(toks, p).type = "RBRACKET" THEN Ok(targets, p + 1)
    ELSE Fail("ParseError", p)

\* _parse_tuple_targets at the opening bracket
parse_tuple_targets(toks, p) ==
    IF Cur(toks, p + 1).type # "IDENT" THEN Fail("ParseError", p + 1)
    ELSE more_targets(toks, p + 2, <<Cur(toks, p + 1).value>>)

\* _is_assignment_start: the look-ahead of an identifier passes over NEWLINEs.
is_assignment_start(toks, p) ==
    \/ Cur(toks, p).type = "LBRACKET"
    \/ /\ Cur(toks, p).type = "IDENT"
       /\ Cur(toks, skip_newlines(toks, p + 1)).type = "ASSIGN"

\* name = expr or [a, b, c] = expr, the expression at p.
assignment_of(toks, p, targets) ==
    With(parse_expr(toks, p),
         LAMBDA expr :
             IF ~expr.ok THEN expr
             ELSE Ok(Assignment(targets, expr.node), skip_newlines(toks, expr.pos)))

\* _parse_assignment_or_input
parse_assignment_or_input(toks, p) ==
    IF Cur(toks, p).type = "LBRACKET"
    THEN With(parse_tuple_targets(toks, p),
              LAMBDA targets :
                  IF ~targets.ok THEN targets
                  ELSE IF Cur(toks, targets.pos).type # "ASSIGN"
                    THEN Fail("ParseError", targets.pos)
                  ELSE assignment_of(toks, targets.pos + 1, targets.node))
    ELSE IF Cur(toks, p).type # "IDENT" THEN Fail("ParseError", p)
    ELSE IF Cur(toks, p + 1).type # "ASSIGN" THEN Fail("ParseError", p + 1)
    ELSE IF Is(Cur(toks, p + 2), "IDENT", W_input) /\ Cur(toks, p + 3).type = "DOT"
      THEN With(parse_input_decl(toks, p + 2, Cur(toks, p).value),
                LAMBDA inp : IF inp.ok THEN Ok(inp.node, skip_newlines(toks, inp.pos))
                             ELSE inp)
    ELSE assignment_of(toks, p + 2, <<Cur(toks, p).value>>)

\* _parse_strategy_action at the keyword strategy
parse_strategy_action(toks, p) ==
    IF Cur(toks, p + 1).type # "DOT" THEN Fail("ParseError", p + 1)
    ELSE IF Cur(toks, p + 2).type # "IDENT" THEN Fail("ParseError", p + 2)
    ELSE IF Cur(toks, p + 3).type # "LPAREN" THEN Fail("ParseError", p + 3)
    ELSE With(call_args(toks, p + 4),
              LAMBDA read :
                  IF ~read.ok THEN read
                  ELSE Ok(StrategyAction(Cur(toks, p + 2).value, read.node.args,
                                         read.node.kwargs),
                          skip_newlines(toks, read.pos)))

\* The while loop of _parse_if_block
RECURSIVE if_body(_, _, _)
if_body(toks, p, body) ==
    IF Cur(toks, p).type \in {"DEDENT", "EOF"} THEN Ok(body, p)
    ELSE With(skip_newlines(toks, p),
              LAMBDA q :
                  IF Cur(toks, q).type = "DEDENT" THEN Ok(body, q)
                  ELSE IF Is(Cur(toks, q), "KEYWORD", W_strategy)
                    THEN With(parse_strategy_action(toks, q),
                              LAMBDA action :
                                  IF ~action.ok THEN action
                                  ELSE With(Append(body, action.node),
                                            LAMBDA more : if_body(toks, action.pos, more)))
                  ELSE With(skip_to_next_line(toks, q),
                            LAMBDA next : if_body(toks, next, body)))

\* _parse_if_block past the INDENT at q - 1: the body, a DEDENT, NEWLINEs.
if_block_body(toks, q, condition_name) ==
    With(if_body(toks, q, <<>>),
         LAMBDA body :
             IF ~body.ok THEN body
             ELSE Ok(IfBlock(condition_name, body.node),
                     skip_newlines(toks, IF Cur(toks, body.pos).type = "DEDENT"
                                         THEN body.pos + 1 ELSE body.pos)))

\* _parse_if_block at the keyword if
parse_if_block(toks, p) ==
    IF Cur(toks, p + 1).type # "IDENT" THEN Fail("ParseError", p + 1)
    ELSE With(skip_newlines(toks, p + 2),
              LAMBDA q :
                  IF Cur(toks, q).type # "INDENT"
                  THEN Ok(IfBlock(Cur(toks, p + 1).value, <<>>), q)
                  ELSE if_block_body(toks, q + 1, Cur(toks, p + 1).value))

\* ------------------------------------------------------- Parser.parse

\* The operands and the binary operators the generated expressions are made of.
Operands  == {<<"a">>, <<"n", "o", "t", " ", "a">>, <<"-", "a", "[", "1", "]">>}
Operators == {W_or, W_and, <<"=", "=">>, <<"+">>, <<"*">>}

\* The line x=operand op operand ... of n operators.
RECURSIVE ExprLine(_, _, _)
ExprLine(xs, os, n) ==
    IF n = 0 THEN <<"x", "=">> \o xs[1]
    ELSE ExprLine(xs, os, n - 1) \o <<" ">> \o os[n] \o <<" ">> \o xs[n + 1]

ExprSources ==
    UNION {{<<ExprLine(xs, os, n)>> : xs \in [1 .. (n + 1) -> Operands],
                                      os \in [1 .. n -> Operators]} : n \in 0 .. MaxOps}

\* Top-level lines: an assignment, a name, the tail of an assignment, a
\* bracketed number, a tuple assignment, a call, an if, an indented strategy
\* action, a declaration, an input and an indented name.
StmtLines ==
    {<<"a", "=", "1">>,
     <<"a">>,
     <<"=", "1">>,
     <<"[", "1", "]">>,
     <<"[", "a", ",", "b", "]", "=", "a">>,
     <<"a", "(", "1", ")">>,
     <<"i", "f", " ", "a">>,
     <<" ", "s", "t", "r", "a", "t", "e", "g", "y", ".", "c", "l", "o", "s", "e", "(",
       "\"", "a", "\"", ")">>,
     <<"s", "t", "r", "a", "t", "e", "g", "y", "(", "\"", "a", "\"", ")">>,
     <<"a", "=", "i", "n", "p", "u", "t", ".", "i", "n", "t", "(", "1", ")">>,
     <<" ", "a">>}

StmtSources == UNION {[1 .. n -> StmtLines] : n \in 1 .. MaxStmts}

\* x=a or b and c == d + e * f[1]
ExampleSource ==
    <<<<"x", "=", "a", " ", "o", "r", " ", "b", " ", "a", "n", "d", " ", "c", " ", "=",
        "=", " ", "d", " ", "+", " ", "e", " ", "*", " ", "f", "[", "1", "]">>>>

\* Scripts with every section: a declaration and an input; an assignment,
\* an if block and an assignment after it; an if block with a line that is
\* no strategy action; a fractional subscript; an input whose first keyword
\* follows the default.
FixedSources ==
    {ExampleSource,
     <<<<"s", "t", "r", "a", "t", "e", "g", "y", "(", "\"", "a", "\"", ",", "b", "=",
        "1", ".", "5", ",", "c", "=", "d", ".", "e", ")">>,
      <<"a", "=", "i", "n", "p", "u", "t", ".", "i", "n", "t", "(", "1", ",", "\"",
        "a", "\"", ",", "b", "=", "2", ")">>>>,
     <<<<"b", "=", "(", "a", "+", "1", ")", "*", "a", ".", "b", "(", "a", ",", "c", "=",
        "n", "a", ")">>,
      <<"i", "f", " ", "b">>,
      <<" ", "s", "t", "r", "a", "t", "e", "g", "y", ".", "c", "l", "o", "s", "e", "(",
        "\"", "a", "\"", ")">>,
      <<"c", "=", "t", "r", "u", "e">>>>,
     <<<<"i", "f", " ", "a">>,
      <<" ", "a">>,
      <<" ", "s", "t", "r", "a", "t", "e", "g", "y", ".", "e", "n", "t", "r", "y", "(",
        "\"", "a", "\"", ",", "b", "=", "c", ")">>,
      <<"a">>>>,
     <<<<"x", "=", "a", "[", "1", ".", "5", "]">>>>,
     <<<<"a", "=", "i", "n", "p", "u", "t", ".", "i", "n", "t", "(", "1", ",", "b", "=",
        "2", ")">>>>}

ParserSources == ExprSources \cup StmtSources \cup FixedSources

othersPar == <<tokVars, sigVars, kernVars, pickVars, cancel_token, strategy_inputs, param_overrides, jobVars,
               runCore, eqVars, warmup, cgVars, loopVars, outVars, pc, df_tf, df_mag, pf>>

\* Where the loop of parse stands once the NEWLINEs before it are passed.
Here == skip_newlines(tokens, p_pos)

\* Parser(tokens).parse() down to its loop: the strategy declaration, if the
\* stream opens with the keyword strategy.
ParseStart ==
    /\ tk_pc = "done"
    /\ p_pc = "start"
    /\ IF ~Is(Cur(tokens, skip_newlines(tokens, 1)), "KEYWORD", W_strategy)
       THEN p_pos' = skip_newlines(tokens, 1) /\ p_pc' = "loop" /\ UNCHANGED prog
       ELSE \E decl \in {parse_strategy_decl(tokens, skip_newlines(tokens, 1))} :
                IF decl.ok
                THEN /\ prog' = [prog EXCEPT !.strategy_decl = <<decl.node>>]
                     /\ p_pos' = skip_newlines(tokens, decl.pos)
                     /\ p_pc' = "loop"
                ELSE p_pos' = decl.pos /\ p_pc' = decl.err /\ UNCHANGED prog
    /\ UNCHANGED othersPar

\* The loop's if branch.
ParseIfBlock ==
    /\ p_pc = "loop"
    /\ Is(Cur(tokens, Here), "KEYWORD", W_if)
    /\ \E block \in {parse_if_block(tokens, Here)} :
          /\ p_pos' = block.pos
          /\ IF block.ok
             THEN prog' = [prog EXCEPT !.if_blocks = Append(@, block.node)] /\ p_pc' = "loop"
             ELSE p_pc' = block.err /\ UNCHANGED prog
    /\ UNCHANGED othersPar

\* The loop's assignment branch.
ParseAssignment ==
    /\ p_pc = "loop"
    /\ ~Is(Cur(tokens, Here), "KEYWORD", W_if)
    /\ is_assignment_start(tokens, Here)
    /\ \E got \in {parse_assignment_or_input(tokens, Here)} :
          /\ p_pos' = got.pos
          /\ IF ~got.ok THEN p_pc' = got.err /\ UNCHANGED prog
             ELSE /\ p_pc' = "loop"
                  /\ prog' = IF got.node.node = "InputDecl"
                             THEN [prog EXCEPT !.inputs = Append(@, got.node)]
                             ELSE [prog EXCEPT !.assignments = Append(@, got.node)]
    /\ UNCHANGED othersPar

\* The loop's last branch: skip unrecognized lines.
SkipLine ==
    /\ p_pc = "loop"
    /\ Cur(tokens, Here).type # "EOF"
    /\ ~Is(Cur(tokens, Here), "KEYWORD", W_if)
    /\ ~is_assignment_start(tokens, Here)
    /\ p_pos' = skip_to_next_line(tokens, Here)
    /\ UNCHANGED <<prog, p_pc, othersPar>>

\* The loop is left at EOF: return prog.
ParseEnd ==
    /\ p_pc = "loop"
    /\ Cur(tokens, Here).type = "EOF"
    /\ p_pos' = Here
    /\ p_pc' = "done"
    /\ UNCHANGED <<prog, othersPar>>

InitParser ==
    /\ InitRun
    /\ first_run = NoRun
    /\ changed = -1
    /\ CgIdle
    /\ EqIdle
    /\ PickIdle
    /\ cancel_token = FALSE
    /\ ParamsIdle
    /\ SigIdle
    /\ KernIdle
    /\ timeframe = "1m"
    /\ magnify = FALSE
    /\ warmup = 50
    /\ length = 2
    /\ strategy = "any"
    /\ df_1m = FixedFrame("1m", {})
    /\ source \in ParserSources
    /\ lines = <<>>
    /\ tokens = <<>>
    /\ indent_stack = <<0>>
    /\ line_k = 0
    /\ text = <<>>
    /\ scan_i = 1
    /\ tk_pc = "start"
    /\ p_pos = 1
    /\ prog = NoProgram
    /\ p_pc = "start"

NextParser ==
    \/ TokenizeStart
    \/ NextLine
    \/ ScanStep
    \/ LineEnd
    \/ TokenizeClose
    \/ ParseStart
    \/ ParseIfBlock
    \/ ParseAssignment
    \/ SkipLine
    \/ ParseEnd

SpecParser == InitParser /\ [][NextParser]_vars

\* ------------------------------------------------------- parser: claims

\* The grammar level of a node: or 1, and 2, not 3, comparison 4, additive 5,
\* multiplicative 6, unary sign 7, subscript 8, primary 9.
Level(e) ==
    IF e.node = "BinOp"
      THEN IF e.op = <<"o", "r">> THEN 1
           ELSE IF e.op = <<"a", "n", "d">> THEN 2
           ELSE IF e.op \in {<<"+">>, <<"-">>} THEN 5
           ELSE IF e.op \in {<<"*">>, <<"/">>, <<"%">>} THEN 6
           ELSE 4
    ELSE IF e.node = "UnaryOp" THEN IF e.op = <<"n", "o", "t">> THEN 3 ELSE 7
    ELSE IF e.node = "Subscript" THEN 8
    ELSE 9

\* Every node of e sits where the grammar allows it: the left operand of an
\* or, and, additive or multiplicative node binds at least as tightly as the
\* node and the right operand more tightly, both operands of a comparison
\* more tightly, the operand of not or of a sign at least as tightly, and a
\* subscript is applied to a primary.
RECURSIVE Climbs(_)
Climbs(e) ==
    IF e.node = "BinOp"
      THEN /\ Level(e.left) >= (IF Level(e) = 4 THEN 5 ELSE Level(e))
           /\ Level(e.right) > Level(e)
           /\ Climbs(e.left)
           /\ Climbs(e.right)
    ELSE IF e.node = "UnaryOp" THEN Level(e.operand) >= Level(e) /\ Climbs(e.operand)
    ELSE IF e.node = "Subscript" THEN Level(e.expr) = 9 /\ Climbs(e.expr)
    ELSE TRUE

\* The token values a tree of names, numbers, operators and subscripts
\* stands for, from left to right.
RECURSIVE Yield(_)
Yield(e) ==
    IF e.node = "BinOp" THEN Yield(e.left) \o <<e.op>> \o Yield(e.right)
    ELSE IF e.node = "UnaryOp" THEN <<e.op>> \o Yield(e.operand)
    ELSE IF e.node = "Subscript" THEN Yield(e.expr) \o <<<<"[">>, e.index, <<"]">>>>
    ELSE IF e.node = "Ident" THEN <<e.name>>
    ELSE <<e.value>>

\* The token values right of the = of a one-line source.
Rhs == [k \in 1 .. (Len(tokens) - 4) |-> tokens[k + 2].value]

\* BinOp(a, or, BinOp(b, and, BinOp(c, ==, BinOp(d, +, BinOp(e, *, Subscript(f, 1))))))
ExampleTree ==
    BinOp(Ident(<<"a">>), <<"o", "r">>,
          BinOp(Ident(<<"b">>), <<"a", "n", "d">>,
                BinOp(Ident(<<"c">>), <<"=", "=">>,
                      BinOp(Ident(<<"d">>), <<"+">>,
                            BinOp(Ident(<<"e">>), <<"*">>,
                                  Subscript(Ident(<<"f">>), <<"1">>))))))

\* C19: the tree of a parsed expression reads back as the tokens of the
\* expression, up to a second comparison in a row, with every operator at its
\* level of or < and < not < comparison < additive < multiplicative < unary
\* < postfix and or, and, additive and multiplicative chains nested to the
\* left; a or b and c == d + e * f[1] parses to BinOp(a, or, BinOp(b, and,
\* BinOp(c, ==, BinOp(d, +, BinOp(e, *, Subscript(f, 1)))))).
C19_PrecedenceClimbing ==
    (/\ source \in ExprSources \cup {ExampleSource}
     /\ p_pc \in {"loop", "done"}
     /\ prog.assignments # <<>>) =>
        \E expr \in {prog.assignments[1].expr} :
            \E y \in {Yield(expr)} :
                /\ Climbs(expr)
                /\ Len(y) <= Len(Rhs)
                /\ y = SubSeq(Rhs, 1, Len(y))
                /\ Len(y) < Len(Rhs) =>
                       /\ Rhs[Len(y) + 1] = <<"=", "=">>
                       /\ \E k \in DOMAIN y : y[k] = <<"=", "=">>
                /\ source = ExampleSource => expr = ExampleTree

\* C19 witness: the parse of a or b and c == d + e * f[1] is through.
C19_Witness ==
    /\ source = ExampleSource
    /\ p_pc = "done"
    /\ Len(prog.assignments) = 1
    /\ Level(prog.assignments[1].expr) = 1

\* A line that opens at token p as a declaration, an assignment or an if
\* does: with the keyword strategy or if, with a name and =, or with a
\* bracketed list and =.
IsStatementLine(p) ==
    \/ Cur(tokens, p).type = "KEYWORD" /\ Cur(tokens, p).value \in {W_if, W_strategy}
    \/ Cur(tokens, p).type = "IDENT" /\ Cur(tokens, p + 1).type = "ASSIGN"
    \/ /\ Cur(tokens, p).type = "LBRACKET"
       /\ \E k \in (p + 1) .. Len(tokens) :
              /\ tokens[k].type = "RBRACKET"
              /\ Cur(tokens, k + 1).type = "ASSIGN"
              /\ \A j \in p .. k : tokens[j].type # "NEWLINE"

\* C20: at a top-level line that is no declaration, input, assignment or if
\* block, parse does not raise: it adds no node to the Program and goes on
\* behind the NEWLINE of the line.
C20_OtherLinesSkipped ==
    [][(/\ p_pc = "loop"
        /\ Cur(tokens, Here).type # "EOF"
        /\ ~IsStatementLine(Here)) =>
           /\ p_pc' = "loop"
           /\ prog' = prog
           /\ p_pos' > Here
           /\ Cur(tokens, p_pos' - 1).type = "NEWLINE"
           /\ \A k \in Here .. (p_pos' - 2) :
                  tokens[k].type = "NEWLINE" => tokens[k + 1].type = "NEWLINE"]_vars

\* The indentation of the logical line the scan stands in.
IndentOfLine == Len(lines[line_k].content) - Len(LStrip(lines[line_k].content))

\* C29: once the INDENT / DEDENT tokens of a non-empty logical line are
\* emitted, the top of indent_stack equals the indentation of that line, for
\* every sequence of indentations, a dedent to a level never pushed included.
C29_StackTopIsIndent ==
    tk_pc = "scan" => indent_stack[Len(indent_stack)] = IndentOfLine

\* The line cut at the first // outside every string literal, a string
\* running from a quote to the next quote that no backslash escapes, a
\* backslash inside a string escaping the character behind it.
RECURSIVE CutOutsideStrings(_, _, _)
CutOutsideStrings(l, k, inside) ==
    IF k > Len(l) THEN l
    ELSE IF inside
      THEN IF l[k] = Backslash THEN CutOutsideStrings(l, k + 2, TRUE)
           ELSE CutOutsideStrings(l, k + 1, l[k] # Quote)
    ELSE IF l[k] = "/" /\ k + 1 <= Len(l) /\ l[k + 1] = "/" THEN SubSeq(l, 1, k - 1)
    ELSE CutOutsideStrings(l, k + 1, l[k] = Quote)

\* C28: _strip_comment cuts every line at the first // outside every string
\* literal, strings delimited as _tokenize_line delimits them, and keeps a //
\* inside a string, also on a line where a string ends in an escaped backslash.
C28_CommentsOutsideStrings ==
    tk_pc # "start" =>
        \A k \in DOMAIN source :
            StripComment(source[k], 1, FALSE) = CutOutsideStrings(source[k], 1, FALSE)

\* ------------------------------------------- the window of one sub-bar

\* Chart-bar slots of the feed of the window specification: more than
\* 3 * warmup + 1, so that the window is trimmed at its start.
WinBars == 5

\* A 3m chart over WinBars slots without gaps, warmup 1, any period.
InitWindow ==
    /\ InitRun
    /\ first_run = NoRun
    /\ changed = -1
    /\ CgIdle
    /\ EqIdle
    /\ SideIdle
    /\ timeframe = "3m"
    /\ magnify = TRUE
    /\ warmup = 1
    /\ length \in Lengths
    /\ strategy = "any"
    /\ df_1m = [t \in 0 .. (WinBars * 3 - 1) |-> IF t % 2 = 0 THEN LowBar ELSE HighBar]

NextWindow ==
    \/ JobStart
    \/ RunPrepare
    \/ BarStart
    \/ SubBarAny
    \/ LoopEnd
    \/ RunFinish
    \/ JobComplete

SpecWindow == InitWindow /\ [][NextWindow]_vars

\* The OHLCV aggregate of the sub-bars at positions a .. b.
FormingOver(a, b) ==
    LET at(q) == df_mag[IndexAt(mag_index, q)]
    IN [open   |-> at(a).open,
        high   |-> SetMax({at(q).high : q \in a .. b}),
        low    |-> SetMin({at(q).low : q \in a .. b}),
        close  |-> at(b).close,
        volume |-> VolumeSum(df_mag, {IndexAt(mag_index, q) : q \in a .. b})]

\* C26: at every evaluated sub-bar p of chart bar i the last window row is
\* the bar forming over sub-bars pos_start .. p (open of the first, highest
\* high, lowest low, close of p, summed volume), whether or not compute
\* raised on earlier sub-bars; the rows before it are chart bars
\* max(0, i - 3W) .. i - 1, and the window has at most 3W + 1 rows.
C26_WindowIsFormingBar ==
    pc = "sub" =>
        LET w  == Window
            n  == Len(w)
            lo == Max2(0, bar_idx - 3 * warmup)
        IN /\ w[n] = FormingOver(pos_start, pos)
           /\ n - 1 = bar_idx - lo
           /\ \A k \in 1 .. (n - 1) : w[k] = df_tf[IndexAt(tf_index, lo + k - 1)]
           /\ n <= 3 * warmup + 1

\* C26 witness: every call raises, the loop stands at the third sub-bar of a
\* chart bar beyond 3W, and the window is full.
C26_Witness ==
    /\ pc = "sub" /\ KernelRaises(length)
    /\ pos = pos_start + 2
    /\ bar_idx > 3 * warmup
    /\ Len(Window) = 3 * warmup + 1

\* ------------------------------------------------ GET /api/backtests/{id}

\* Backtest.to_detail_dict of the committed job row: the summary fields the
\* model carries, and result_json when the status is completed and a result
\* is stored.
to_detail_dict ==
    LET d == [status |-> job_status, progress |-> job_progress]
    IN IF job_status = "completed" /\ result_json # <<>>
         THEN [k \in {"status", "progress", "result_json"} |->
                  IF k = "result_json" THEN result_json[1] ELSE d[k]]
         ELSE d

\* The moves of the committed status that execute_backtest_job allows.
StatusMoves ==
    {<<"pending", "running">>, <<"running", "completed">>, <<"running", "failed">>}

\* C24: a poller sees result_json only for a job whose committed status is
\* completed; every committed completed state has progress 100 and a stored
\* result; and the committed status only moves pending -> running ->
\* completed or failed, never backwards and never out of a terminal status.
C24_ResultOnlyWhenCompleted ==
    /\ []("result_json" \in DOMAIN to_detail_dict => job_status = "completed")
    /\ [](job_status = "completed" => job_progress = 100 /\ result_json # <<>>)
    /\ [][job_status' # job_status => <<job_status, job_status'>> \in StatusMoves]_vars

\* C24 witness: a completed job whose poller is handed the stored result of
\* a run that marked an entry.
C24_Witness ==
    /\ job_status = "completed"
    /\ "result_json" \in DOMAIN to_detail_dict
    /\ to_detail_dict.result_json.signals.entries # {}

\* C30: for every number of chart bars the ohlcv_bars list of a stored
\* result holds at most MAX_CHART_BARS entries.
C30_ChartBarsCapped ==
    result_json # <<>> => Len(result_json[1].ohlcv_bars) <= MAX_CHART_BARS

\* ------------------------------------- codegen.py: signal analysis

\* Most if-blocks of a program handed to the signal analysis.
MaxBlocks == 3

W_entry == <<"e", "n", "t", "r", "y">>
W_close == <<"c", "l", "o", "s", "e">>
W_exit  == <<"e", "x", "i", "t">>
W_long  == <<"l", "o", "n", "g">>
W_short == <<"s", "h", "o", "r", "t">>

\* word in text
Contains(s, word) ==
    \E k \in 1 .. (Len(s) - Len(word) + 1) : SubSeq(s, k, k + Len(word) - 1) = word

\* str.lower on the letters the labels hold.
lower_case(s) == [k \in DOMAIN s |-> IF s[k] = "S" THEN "s" ELSE IF s[k] = "L" THEN "l" ELSE s[k]]

\* _expr_to_str of the nodes an action's arguments are made of.
expr_to_str(expr) ==
    IF expr.node = "Literal" THEN (IF expr.value = None THEN W_na ELSE expr.value)
    ELSE IF expr.node = "Ident" THEN expr.name
    ELSE expr.namespace \o <<".">> \o expr.name

\* _classify_action: which of the four signals an action stands for, "None"
\* for strategy.exit and anything else.
classify_action(action) ==
    IF action.action = W_entry
      THEN IF Len(action.args) >= 2 /\ Contains(expr_to_str(action.args[2]), W_long)
             THEN "long_entries"
           ELSE IF Len(action.args) >= 2 /\ Contains(expr_to_str(action.args[2]), W_short)
             THEN "short_entries"
           ELSE "long_entries"
    ELSE IF action.action = W_close
      THEN IF Len(action.args) >= 1
              /\ Contains(lower_case(expr_to_str(action.args[1])), W_short)
             THEN "short_exits"
           ELSE "long_exits"
    ELSE "None"

\* The inner loop of _analyze_signals over the actions k.. of one block.
RECURSIVE analyze_body(_, _, _, _)
analyze_body(map, name, body, k) ==
    IF k > Len(body) THEN map
    ELSE analyze_body(IF classify_action(body[k]) # "None"
                        THEN DictSet(map, name, classify_action(body[k]))
                        ELSE map,
                      name, body, k + 1)

\* The outer loop of _analyze_signals over the blocks k.. .
RECURSIVE analyze_blocks(_, _, _)
analyze_blocks(map, blocks, k) ==
    IF k > Len(blocks) THEN map
    ELSE analyze_blocks(analyze_body(map, blocks[k].condition_name, blocks[k].body, 1),
                        blocks, k + 1)

\* The keys of the signals dict of _emit_signal_return, in its order.
SignalNames == <<"long_entries", "long_exits", "short_entries", "short_exits">>

\* signals[signal_type] = cond_name over the items of the map, in order: the
\* last item of that type, <<>> for None.
RECURSIVE slot_of(_, _, _, _)
slot_of(map, sig_name, k, cond_var) ==
    IF k > Len(map) THEN cond_var
    ELSE slot_of(map, sig_name, k + 1,
                 IF map[k].val = sig_name THEN <<map[k].key>> ELSE cond_var)

\* The part _emit_signal_return emits for one slot.
batch_part(cond_var) ==
    IF cond_var # <<>> THEN cond_var[1] \o <<".fillna(False)">>
    ELSE <<"pd.Series(False, index=_df.index)">>

\* The part _emit_signal_return_fast emits for one slot.
step_part(cond_var) ==
    IF cond_var # <<>>
      THEN <<"(bool(">> \o cond_var[1] \o <<"[-1]) if not np.isnan(">> \o cond_var[1]
           \o <<"[-1]) else False) if hasattr(">> \o cond_var[1]
           \o <<", '__len__') else bool(">> \o cond_var[1] \o <<")">>
    ELSE <<"False">>

othersSig == <<jobVars, runCore, eqVars, warmup, loopVars, outVars, pc, df_tf, df_mag, pf,
               pickVars, cancel_token, strategy_inputs, param_overrides, tokVars, parVars,
               kernVars, ast, inputs, max_period, emitted>>

\* generate: self._analyze_signals()
AnalyzeSignals ==
    /\ gen_pc = "analyze"
    /\ signal_map' = analyze_blocks(<<>>, ast.if_blocks, 1)
    /\ gen_pc' = "compute"
    /\ UNCHANGED <<signal_return, fast_mode, othersSig>>

\* _emit_compute of a program without inputs and assignments, down to its
\* return.
EmitSignalReturn ==
    /\ gen_pc = "compute"
    /\ signal_return' =
          [signal_return EXCEPT
              !.batch = [k \in 1 .. 4 |-> batch_part(slot_of(signal_map, SignalNames[k], 1, <<>>))]]
    /\ gen_pc' = "compute_fast"
    /\ fast_mode' = TRUE
    /\ UNCHANGED <<signal_map, othersSig>>

\* _emit_compute_fast of the same program.
EmitSignalReturnFast ==
    /\ gen_pc = "compute_fast"
    /\ signal_return' =
          [signal_return EXCEPT
              !.step = [k \in 1 .. 4 |-> step_part(slot_of(signal_map, SignalNames[k], 1, <<>>))]]
    /\ gen_pc' = "generated"
    /\ fast_mode' = FALSE
    /\ UNCHANGED <<signal_map, othersSig>>

\* The actions of the if-blocks the parser hands over.
EntryLong  == StrategyAction(W_entry, <<Literal("str", <<"L">>),
                                        PropertyAccess(W_strategy, W_long)>>, <<>>)
EntryShort == StrategyAction(W_entry, <<Literal("str", <<"S">>),
                                        PropertyAccess(W_strategy, W_short)>>, <<>>)
EntryPlain == StrategyAction(W_entry, <<Literal("str", <<"L">>)>>, <<>>)
CloseLong  == StrategyAction(W_close, <<Literal("str", <<"L">>)>>, <<>>)
CloseShort == StrategyAction(W_close, <<Literal("str", <<"S">> \o SubSeq(W_short, 2, 5))>>, <<>>)
ExitLong   == StrategyAction(W_exit, <<Literal("str", <<"x">>), Literal("str", <<"L">>)>>, <<>>)

Bodies ==
    {<<EntryLong>>, <<EntryShort>>, <<CloseShort>>, <<ExitLong>>, <<EntryPlain, CloseLong>>}

Blocks == {IfBlock(<<n>>, b) : n \in {"a", "b"}, b \in Bodies}

BlockLists == UNION {[1 .. n -> Blocks] : n \in 0 .. MaxBlocks}

InitSignals ==
    /\ InitRun
    /\ first_run = NoRun
    /\ changed = -1
    /\ EqIdle
    /\ PickIdle /\ cancel_token = FALSE /\ ParamsIdle /\ TokIdle /\ ParIdle /\ KernIdle
    /\ timeframe = "1m"
    /\ magnify = FALSE
    /\ warmup = 50
    /\ length = 2
    /\ strategy = "any"
    /\ df_1m = FixedFrame("1m", {})
    /\ ast \in {[inputs |-> <<>>, calls |-> <<>>, if_blocks |-> bs] : bs \in BlockLists}
    /\ inputs = NoInputs
    /\ max_period = 0
    /\ fast_mode = FALSE
    /\ emitted = 0
    /\ gen_pc = "analyze"
    /\ SigIdle

NextSignals ==
    \/ AnalyzeSignals
    \/ EmitSignalReturn
    \/ EmitSignalReturnFast

SpecSignals == InitSignals /\ [][NextSignals]_vars

\* The blocks holding an action classified to a signal type.
BlocksOf(sig_name) ==
    {k \in DOMAIN ast.if_blocks :
        \E j \in DOMAIN ast.if_blocks[k].body :
            classify_action(ast.if_blocks[k].body[j]) = sig_name}

\* C21: when several if-blocks hold actions classified to one signal type,
\* the batch and step returns bind that type's slot to the condition name of
\* the last such block in source order, for every order of the blocks and
\* also when a condition name is used by more than one block.
C21_LastBlockWins ==
    (gen_pc = "generated" /\ "if_blocks" \in DOMAIN ast) =>
        \A k \in 1 .. 4 :
            BlocksOf(SignalNames[k]) # {} =>
                LET last == ast.if_blocks[SetMax(BlocksOf(SignalNames[k]))].condition_name
                IN /\ signal_return.batch[k] = batch_part(<<last>>)
                   /\ signal_return.step[k] = step_part(<<last>>)

\* C25: for every action of an if-block that classifies to a signal type the
\* slot of that type is bound to a condition and not emitted as constant
\* false, also when one block holds two actions of different types or one
\* condition name appears in blocks of different types.
C25_ClassifiedSlotBound ==
    (gen_pc = "generated" /\ "if_blocks" \in DOMAIN ast) =>
        \A k \in 1 .. 4 :
            BlocksOf(SignalNames[k]) # {} =>
                /\ signal_return.batch[k] # batch_part(<<>>)
                /\ signal_return.step[k] # step_part(<<>>)

\* ------------------------------------- codegen.py: Subscript lowering

\* Largest lookback index of a Subscript node.
MaxShift == 2
\* Longest window the lowered Subscript is run on.
MaxWindow == 3

\* np.nan among the integers the model's series hold.
NaN == -1000000

\* str(expr.index)
DigitOf(k) == <<"0", "1", "2", "3", "4", "5", "6", "7", "8", "9">>[k + 1]

\* _PRICE_BUILTINS[name]
ident_to_python(name) ==
    CASE name = "close" -> "_close" [] name = "open" -> "_open" [] OTHER -> name

\* _expr_to_python of Subscript(Ident(name), index): f"({inner})[{expr.index}]",
\* the same text in _compute and in _compute_fast.
subscript_to_python(expr, fast) ==
    <<"(", ident_to_python(expr.expr.name), ")", "[", DigitOf(expr.index), "]">>

\* The column a name of the emitted source is bound to.
Column(w, py_name) ==
    [i \in DOMAIN w |-> IF py_name = "_close" THEN w[i].close ELSE w[i].open]

\* The integer between the brackets of the emitted source.
IndexOf(src) == CHOOSE k \in 0 .. 9 : DigitOf(k) = src[5]

IndexError == [raised |-> TRUE, exc |-> "IndexError"]
KeyError   == [raised |-> TRUE, exc |-> "KeyError"]
Scalar(v)  == [raised |-> FALSE, scalar |-> v]

\* (series)[k] on a pandas Series over a DatetimeIndex: an integer key is no
\* label of the index; pandas up to 2.x then takes it for a position and
\* gives the element there, pandas 3 raises KeyError.
SeriesGetItem(series, k) ==
    {IF k + 1 \in DOMAIN series THEN Scalar(series[k + 1]) ELSE IndexError, KeyError}

\* (array)[k] on a numpy array: the element at position k.
ArrayGetItem(series, k) ==
    IF k + 1 \in DOMAIN series THEN Scalar(series[k + 1]) ELSE IndexError

\* _emit_compute lowers the Subscript.
EmitSubscript ==
    /\ cond # <<>>
    /\ python_src = <<>>
    /\ python_src' = subscript_to_python(cond, FALSE)
    /\ UNCHANGED <<cond, window, python_fast_src, batch_out, fast_out, othersEq>>

\* _emit_compute_fast lowers it again with _fast_mode set.
EmitSubscriptFast ==
    /\ python_src # <<>>
    /\ python_fast_src = <<>>
    /\ python_fast_src' = subscript_to_python(cond, TRUE)
    /\ UNCHANGED <<cond, window, python_src, batch_out, fast_out, othersEq>>

\* The emitted batch expression evaluated on the window's DataFrame.
CallSubscript ==
    /\ python_src # <<>>
    /\ batch_out = NotRun
    /\ batch_out' \in SeriesGetItem(Column(window, python_src[2]), IndexOf(python_src))
    /\ UNCHANGED <<cond, window, python_src, python_fast_src, fast_out, othersEq>>

\* The emitted step expression evaluated on the window's arrays.
CallSubscriptFast ==
    /\ python_fast_src # <<>>
    /\ fast_out = NotRun
    /\ fast_out' = ArrayGetItem(Column(window, python_fast_src[2]), IndexOf(python_fast_src))
    /\ UNCHANGED <<cond, window, python_src, python_fast_src, batch_out, othersEq>>

InitSubscript ==
    /\ InitRun
    /\ SideIdle
    /\ first_run = NoRun
    /\ changed = -1
    /\ CgIdle
    /\ timeframe = "1m"
    /\ magnify = FALSE
    /\ length = 2
    /\ strategy = "any"
    /\ df_1m = FixedFrame("1m", {})
    /\ warmup = 50
    /\ cond \in {Subscript(Ident(n), k) : n \in {"close", "open"}, k \in 0 .. MaxShift}
    /\ window \in UNION {[1 .. n -> Shapes] : n \in 1 .. MaxWindow}
    /\ python_src = <<>>
    /\ python_fast_src = <<>>
    /\ batch_out = NotRun
    /\ fast_out = NotRun

NextSubscript ==
    \/ EmitSubscript
    \/ EmitSubscriptFast
    \/ CallSubscript
    \/ CallSubscriptFast

SpecSubscript == InitSubscript /\ [][NextSubscript]_vars

\* The series of cond's operand shifted right by its index: NaN at the first
\* k positions, the value of position i - k at position i.
Shifted ==
    LET series == Column(window, ident_to_python(cond.expr.name))
    IN [i \in DOMAIN series |-> IF i <= cond.index THEN NaN ELSE series[i - cond.index]]

\* The value a result holds at position i; a scalar holds it at every one.
ValueAt(out, i) == IF "scalar" \in DOMAIN out THEN out.scalar ELSE out.value[i]

IsShifted(out) ==
    /\ ~out.raised
    /\ \A i \in DOMAIN window : ValueAt(out, i) = Shifted[i]

\* C22: Subscript(expr, k) is lowered to the series of expr shifted right by
\* k: in the batch and in the step routine the value at position i is expr's
\* value at position i - k, and the first k positions are NaN.
C22_SubscriptShifts ==
    /\ batch_out # NotRun => IsShifted(batch_out)
    /\ fast_out # NotRun => IsShifted(fast_out)

\* --------------------------------------------- _numba_kernels.py

\* Bars of the series a kernel is called on.
KBars == 4

RECURSIVE Pow(_, _)
Pow(b, e) == IF e = 0 THEN 1 ELSE b * Pow(b, e - 1)

\* The series hold float64 values that are multiples of 1 / FixedScale, as
\* integers in that unit; over KBars bars the halvings and quarterings of the
\* kernels stay inside these multiples, so the arithmetic below is the
\* kernels' own.
FixedScale == Pow(4, KBars)

\* math.isnan
IsNaN(x) == x = NaN

\* float64 arithmetic and comparison: NaN in, NaN (or False) out.
FAdd(a, b) == IF IsNaN(a) \/ IsNaN(b) THEN NaN ELSE a + b
FSub(a, b) == IF IsNaN(a) \/ IsNaN(b) THEN NaN ELSE a - b
FAbs(a)    == IF IsNaN(a) THEN NaN ELSE IF a < 0 THEN -a ELSE a
FLt(a, b)  == ~IsNaN(a) /\ ~IsNaN(b) /\ a < b
FGt(a, b)  == ~IsNaN(a) /\ ~IsNaN(b) /\ a > b
\* n * a for an integer n, a / n for an n that divides a.
FMul(n, a) == IF IsNaN(a) THEN NaN ELSE n * a
FDiv(a, n) == IF IsNaN(a) THEN NaN ELSE a \div n

\* max(a, b) and min(a, b) as numba compiles them: the second argument
\* replaces the first when it compares greater (less).
FMax(a, b) == IF FGt(b, a) THEN b ELSE a
FMin(a, b) == IF FLt(b, a) THEN b ELSE a

\* _rma: out[0] = src[0]; a NaN source keeps the last value, a NaN last value
\* restarts from the source, else alpha * src + (1 - alpha) * out[i - 1].
RECURSIVE rma_at(_, _, _)
rma_at(src, len, k) ==
    IF k = 1 THEN src[1]
    ELSE With(rma_at(src, len, k - 1),
              LAMBDA prev :
                  IF IsNaN(src[k]) THEN prev
                  ELSE IF IsNaN(prev) THEN src[k]
                  ELSE (src[k] + (len - 1) * prev) \div len)

rma(src, len) == [k \in DOMAIN src |-> rma_at(src, len, k)]

\* _atr: the true range, smoothed by _rma.
atr(high, low, close, len) ==
    LET tr == [k \in DOMAIN high |->
                  IF k = 1 THEN FSub(high[1], low[1])
                  ELSE FMax(FSub(high[k], low[k]),
                            FMax(FAbs(FSub(high[k], close[k - 1])),
                                 FAbs(FSub(low[k], close[k - 1]))))]
    IN rma(tr, len)

othersKern == <<jobVars, runCore, eqVars, warmup, cgVars, loopVars, outVars, pc, df_tf, df_mag,
                pf, pickVars, cancel_token, strategy_inputs, param_overrides, tokVars, parVars,
                sigVars>>

\* _supertrend down to its main loop: the ATR, hl2, the raw bands, st zeroed
\* and direction all ones.  ub and lb are adjusted in place by the loop;
\* raw_ub and raw_lb keep what they held before.
SupertrendStart ==
    /\ kernel_args.name = "supertrend"
    /\ kernel_state = NoKernel
    /\ LET n       == Len(kernel_args.close)
           atr_val == atr(kernel_args.high, kernel_args.low, kernel_args.close,
                          kernel_args.period)
           hl2     == [k \in 1 .. n |-> FDiv(FAdd(kernel_args.high[k], kernel_args.low[k]), 2)]
           ub      == [k \in 1 .. n |-> FAdd(hl2[k], FMul(kernel_args.factor, atr_val[k]))]
           lb      == [k \in 1 .. n |-> FSub(hl2[k], FMul(kernel_args.factor, atr_val[k]))]
       IN kernel_state' =
              [name |-> "supertrend", i |-> 1, ub |-> ub, lb |-> lb,
               raw_ub |-> ub, raw_lb |-> lb,
               st |-> [k \in 1 .. n |-> 0], direction |-> [k \in 1 .. n |-> 1]]
    /\ UNCHANGED <<kernel_args, othersKern>>

\* A NaN bar that leaves direction[i] at the 1 it was created with.
nan_direction_Ones(prev) == 1

\* direction[i] = direction[i - 1] on a bar whose band is NaN.
nan_direction(prev) == prev

\* One pass of the main loop of _supertrend, at position i (array index i + 1).
SupertrendStep ==
    /\ kernel_state.name = "supertrend"
    /\ kernel_state.i < Len(kernel_args.close)
    /\ LET k     == kernel_state.i + 1
           s     == kernel_state
           close == kernel_args.close
           ub_k  == IF ~(FLt(s.ub[k], s.ub[k - 1]) \/ FGt(close[k - 1], s.ub[k - 1]))
                      THEN s.ub[k - 1] ELSE s.ub[k]
           lb_k  == IF ~(FGt(s.lb[k], s.lb[k - 1]) \/ FLt(close[k - 1], s.lb[k - 1]))
                      THEN s.lb[k - 1] ELSE s.lb[k]
           down  == IF s.direction[k - 1] = -1 THEN FLt(close[k], lb_k)
                    ELSE ~FGt(close[k], ub_k)
       IN IF IsNaN(s.ub[k]) \/ IsNaN(s.lb[k])
            THEN kernel_state' =
                    [s EXCEPT !.i = s.i + 1,
                              !.st[k] = NaN,
                              !.direction[k] = nan_direction(s.direction[k - 1])]
            ELSE kernel_state' =
                    [s EXCEPT !.i = s.i + 1,
                              !.ub[k] = ub_k,
                              !.lb[k] = lb_k,
                              !.direction[k] = IF down THEN 1 ELSE -1,
                              !.st[k] = IF down THEN ub_k ELSE lb_k]
    /\ UNCHANGED <<kernel_args, othersKern>>

\* The bars of the series: three price levels, and a bar without data.  Each
\* is (high, low, close).
PriceBars == {<<2, 1, 1>>, <<10, 8, 10>>, <<1, 0, 0>>, <<NaN, NaN, NaN>>}

Fixed(x) == IF IsNaN(x) THEN NaN ELSE x * FixedScale

BarSeries == UNION {[1 .. n -> PriceBars] : n \in 1 .. KBars}

SupertrendArgs ==
    {[name |-> "supertrend",
      high  |-> [k \in DOMAIN b |-> Fixed(b[k][1])],
      low   |-> [k \in DOMAIN b |-> Fixed(b[k][2])],
      close |-> [k \in DOMAIN b |-> Fixed(b[k][3])],
      factor |-> 1, period |-> p] : b \in BarSeries, p \in {1, 2}}

\* An acceleration factor that grows without its cap.
next_af_Uncapped(af, inc, max_val) == af + inc

\* af = min(af + inc, max_val)
next_af(af, inc, max_val) == FMin(af + inc, max_val)

\* af * x for a factor held in quarters.
AfTimes(af, x) == FDiv(FMul(af, x), 4)

\* _sar down to its loop: psar all NaN but psar[0] = low[0], af = start,
\* trend = 1, ep = high[0].  clipped is the value psar[i] holds after the
\* min / max against the bars before, NaN while no bar has been through it.
SarStart ==
    /\ kernel_args.name = "sar"
    /\ kernel_state = NoKernel
    /\ kernel_state' =
          [name |-> "sar", i |-> 1,
           psar |-> [k \in DOMAIN kernel_args.high |->
                        IF k = 1 THEN kernel_args.low[1] ELSE NaN],
           af |-> kernel_args.start, trend |-> 1, ep |-> kernel_args.high[1],
           clipped |-> NaN]
    /\ UNCHANGED <<kernel_args, othersKern>>

\* One pass of the loop of _sar, at position i (array index i + 1).
SarStep ==
    /\ kernel_state.name = "sar"
    /\ kernel_state.i < Len(kernel_args.high)
    /\ LET k     == kernel_state.i + 1
           s     == kernel_state
           high  == kernel_args.high
           low   == kernel_args.low
           prev  == s.psar[k - 1]
           tent  == FAdd(prev, AfTimes(s.af, FSub(s.ep, prev)))
           up1   == FMin(tent, low[k - 1])
           up    == IF kernel_state.i >= 2 THEN FMin(up1, low[k - 2]) ELSE up1
           dn1   == FMax(tent, high[k - 1])
           dn    == IF kernel_state.i >= 2 THEN FMax(dn1, high[k - 2]) ELSE dn1
       IN IF IsNaN(high[k]) \/ IsNaN(low[k])
            THEN kernel_state' = [s EXCEPT !.i = s.i + 1, !.psar[k] = prev]
          ELSE IF s.trend = 1
            THEN IF FLt(low[k], up)
                   THEN kernel_state' =
                           [s EXCEPT !.i = s.i + 1, !.clipped = up, !.trend = -1,
                                     !.psar[k] = s.ep, !.ep = low[k],
                                     !.af = kernel_args.start]
                 ELSE IF FGt(high[k], s.ep)
                   THEN kernel_state' =
                           [s EXCEPT !.i = s.i + 1, !.clipped = up, !.psar[k] = up,
                                     !.ep = high[k],
                                     !.af = next_af(s.af, kernel_args.inc,
                                                    kernel_args.max_val)]
                 ELSE kernel_state' = [s EXCEPT !.i = s.i + 1, !.clipped = up, !.psar[k] = up]
          ELSE IF FGt(high[k], dn)
                 THEN kernel_state' =
                         [s EXCEPT !.i = s.i + 1, !.clipped = dn, !.trend = 1,
                                   !.psar[k] = s.ep, !.ep = high[k],
                                   !.af = kernel_args.start]
               ELSE IF FLt(low[k], s.ep)
                 THEN kernel_state' =
                         [s EXCEPT !.i = s.i + 1, !.clipped = dn, !.psar[k] = dn,
                                   !.ep = low[k],
                                   !.af = next_af(s.af, kernel_args.inc,
                                                  kernel_args.max_val)]
               ELSE kernel_state' = [s EXCEPT !.i = s.i + 1, !.clipped = dn, !.psar[k] = dn]
    /\ UNCHANGED <<kernel_args, othersKern>>

\* start, inc and max_val in quarters.
SarArgs ==
    {[name |-> "sar",
      high |-> [k \in DOMAIN b |-> Fixed(b[k][1])],
      low  |-> [k \in DOMAIN b |-> Fixed(b[k][2])],
      start |-> s, inc |-> d, max_val |-> 2] :
        b \in BarSeries, s \in {1, 2, 3}, d \in {-1, 1, 2}}

InitKernels ==
    /\ InitRun
    /\ first_run = NoRun
    /\ changed = -1
    /\ CgIdle
    /\ EqIdle
    /\ PickIdle /\ cancel_token = FALSE /\ ParamsIdle /\ TokIdle /\ ParIdle /\ SigIdle
    /\ timeframe = "1m"
    /\ magnify = FALSE
    /\ warmup = 50
    /\ length = 2
    /\ strategy = "any"
    /\ df_1m = FixedFrame("1m", {})
    /\ kernel_args \in SupertrendArgs \cup SarArgs
    /\ kernel_state = NoKernel

NextKernels ==
    \/ SupertrendStart
    \/ SupertrendStep
    \/ SarStart
    \/ SarStep

SpecKernels == InitKernels /\ [][NextKernels]_vars

\* ------------------------------------------------ kernels: claims

\* The array indices the loop of the kernel has been through, index 1
\* (position 0) left out.
Done == 2 .. kernel_state.i

\* C23: in the SuperTrend kernel direction is +1 or -1 at every index; it
\* changes from +1 to -1 at bar i only if close[i] > the adjusted ub[i] and
\* from -1 to +1 only if close[i] < the adjusted lb[i]; on a bar whose raw
\* band is NaN it equals the direction of the bar before; and on every
\* non-NaN bar i >= 1, st[i] is lb[i] when direction[i] = -1 and ub[i] when
\* direction[i] = +1.
C23_SupertrendDirection ==
    kernel_state.name = "supertrend" =>
        LET s == kernel_state
            close == kernel_args.close
        IN /\ \A k \in DOMAIN s.direction : s.direction[k] \in {1, -1}
           /\ \A k \in Done :
                 /\ (s.direction[k - 1] = 1 /\ s.direction[k] = -1) => FGt(close[k], s.ub[k])
                 /\ (s.direction[k - 1] = -1 /\ s.direction[k] = 1) => FLt(close[k], s.lb[k])
                 /\ (IsNaN(s.raw_ub[k]) \/ IsNaN(s.raw_lb[k])) =>
                        s.direction[k] = s.direction[k - 1]
                 /\ ~(IsNaN(s.raw_ub[k]) \/ IsNaN(s.raw_lb[k])) =>
                        s.st[k] = IF s.direction[k] = -1 THEN s.lb[k] ELSE s.ub[k]

\* C23 witness: a finished call whose direction went from +1 to -1, back to
\* +1, and then through a bar without data.
C23_Witness ==
    /\ kernel_state.name = "supertrend"
    /\ kernel_state.i = KBars
    /\ kernel_state.direction = <<1, -1, 1>> \o [k \in 1 .. (KBars - 3) |-> 1]
    /\ IsNaN(kernel_state.raw_ub[KBars])
    /\ ~IsNaN(kernel_state.st[3])

FLe(a, b) == ~IsNaN(a) /\ ~IsNaN(b) /\ a <= b

\* What the claim says of one pass of the loop over a bar with non-NaN high
\* and low, from state s to state t.
SarPass(s, t) ==
    LET k    == s.i + 1
        high == kernel_args.high
        low  == kernel_args.low
    IN IF s.trend = 1
         THEN /\ FLe(t.clipped, low[k - 1])
              /\ s.i >= 2 => FLe(t.clipped, low[k - 2])
              /\ IF FLt(low[k], t.clipped)
                   THEN /\ t.trend = -1 /\ t.psar[k] = s.ep
                        /\ t.ep = low[k] /\ t.af = kernel_args.start
                   ELSE /\ t.trend = 1
                        /\ t.af = IF FGt(high[k], s.ep)
                                    THEN Min2(s.af + kernel_args.inc, kernel_args.max_val)
                                    ELSE s.af
         ELSE /\ FLe(high[k - 1], t.clipped)
              /\ s.i >= 2 => FLe(high[k - 2], t.clipped)
              /\ IF FGt(high[k], t.clipped)
                   THEN /\ t.trend = 1 /\ t.psar[k] = s.ep
                        /\ t.ep = high[k] /\ t.af = kernel_args.start
                   ELSE /\ t.trend = -1
                        /\ t.af = IF FLt(low[k], s.ep)
                                    THEN Min2(s.af + kernel_args.inc, kernel_args.max_val)
                                    ELSE s.af

AfInRange(s) ==
    kernel_args.start <= kernel_args.max_val =>
        kernel_args.start <= s.af /\ s.af <= kernel_args.max_val

\* The pass is over a bar with non-NaN high and low.
OnSarBar ==
    /\ SarStep
    /\ ~IsNaN(kernel_args.high[kernel_state.i + 1])
    /\ ~IsNaN(kernel_args.low[kernel_state.i + 1])

\* C27 as stated: for every bar i >= 1 with non-NaN high and low the pass is
\* as SarPass says, and with start <= max_val the factor af stays in
\* [start, max_val].
C27_SarAsStated ==
    [][OnSarBar => SarPass(kernel_state, kernel_state') /\ AfInRange(kernel_state')]_vars

\* No NaN at position 0 nor at the two positions before i.
CleanBefore ==
    \A k \in {1, kernel_state.i, kernel_state.i - 1} \cap DOMAIN kernel_args.high :
        ~IsNaN(kernel_args.high[k]) /\ ~IsNaN(kernel_args.low[k])

\* C27 amended: the pass is as SarPass says when, besides bar i, bars 0,
\* i - 1 and i - 2 hold no NaN; and the factor af stays in [start, max_val]
\* when start <= max_val and inc >= 0.
C27_SarPass ==
    [][OnSarBar =>
          /\ CleanBefore => SarPass(kernel_state, kernel_state')
          /\ kernel_args.inc >= 0 => AfInRange(kernel_state')]_vars

\* C27 witness: a call on a series without NaN, start below max_val and a
\* positive inc, that flipped to a downtrend and then set a new low: af has
\* grown above start.
C27_Witness ==
    /\ kernel_state.name = "sar"
    /\ kernel_state.trend = -1
    /\ kernel_args.inc > 0
    /\ kernel_state.af > kernel_args.start
    /\ kernel_state.af = kernel_args.max_val
    /\ \A k \in DOMAIN kernel_args.high : ~IsNaN(kernel_args.high[k])

====
